---- MODULE Spec2Model ----
(***************************************************************************)
(* NIFTY option viewer: the analytics engine (src/services/analysis.ts)    *)
(* and the snapshot history store (src/services/dataService.ts).           *)
(*                                                                         *)
(* Numbers.  Strike prices, open interest, volumes and epoch times are     *)
(* integers small enough for every sum and product of the code to be exact *)
(* in IEEE doubles, so JavaScript arithmetic on them is integer            *)
(* arithmetic.  The one inexact operation is the division inside           *)
(* Number((a / b).toFixed(2)); ToFixed2 below computes its result, in      *)
(* hundredths, from the binary rounding of the quotient.                   *)
(***************************************************************************)
EXTENDS Integers, Sequences, FiniteSets, TLC

VARIABLES
    data,             \* StrikeRecord[] handed to the analytics functions
    underlyingValue,  \* spot price handed to the analytics functions
    call,             \* the last analytics call and what it returned
    storage,          \* localStorage[STORAGE_KEY]: NullItem or the stored array
    now,              \* the wall clock (Date.now(), in model ticks)
    last,             \* the last store call: its inputs and the item before it
    backfill,         \* handleBackfill: where the run stands and its locals
    view,             \* the React state of App that the handlers set
    live              \* loadData: where the refresh stands and its locals

vars == <<data, underlyingValue, call, storage, now, last, backfill, view, live>>

analysisVars == <<data, underlyingValue, call>>
storeVars == <<storage, now, last>>
backfillVars == <<backfill, view, live>>

-----------------------------------------------------------------------------
(* Bounds of the model *)

\* longest strike-record list drawn as an input of the analytics functions
MaxStrikes == 2

-----------------------------------------------------------------------------
(* Generic helpers *)

Abs(x) == IF x < 0 THEN -x ELSE x

Min2(a, b) == IF a <= b THEN a ELSE b

Range(s) == {s[i] : i \in DOMAIN s}

\* all sequences over S of length 0..n
RECURSIVE SeqsUpTo(_, _)
SeqsUpTo(S, n) ==
    IF n = 0 THEN {<<>>}
    ELSE LET shorter == SeqsUpTo(S, n - 1)
         IN  shorter \cup {Append(s, x) : s \in {t \in shorter : Len(t) = n - 1}, x \in S}

RECURSIVE SumOver(_, _)
\* sum of f[x] over the finite set S
SumOver(f, S) ==
    IF S = {} THEN 0
    ELSE LET x == CHOOSE y \in S : TRUE
         IN  f[x] + SumOver(f, S \ {x})

-----------------------------------------------------------------------------
(* Number((num / den).toFixed(2)), in hundredths                           *)

\* floor(log2(p / c)) for p >= c > 0
RECURSIVE Log2Up(_, _)
Log2Up(p, c) == IF 2 * c <= p THEN 1 + Log2Up(p, 2 * c) ELSE 0

\* floor(log2(p / c)) for 0 < p < c
RECURSIVE Log2Down(_, _)
Log2Down(p, c) == IF p >= c THEN 0 ELSE Log2Down(2 * p, c) - 1

\* (r * 2^k) mod m, eight doublings at a time while the product stays small
RECURSIVE ShiftMod(_, _, _)
ShiftMod(r, k, m) ==
    IF k = 0 THEN r % m
    ELSE IF k >= 8 /\ m <= 4000000 THEN ShiftMod((256 * (r % m)) % m, k - 8, m)
    ELSE ShiftMod((2 * r) % m, k - 1, m)

\* TRUE iff the double nearest to p / c (round to nearest, ties to even, 53-bit
\* significand) is strictly below the rational p / c; p, c > 0.
QuotientBelow(p, c) ==
    LET j == IF p >= c THEN Log2Up(p, c) ELSE Log2Down(p, c)
        k == 52 - j                     \* 2^52 <= (p / c) * 2^k < 2^53
        r == ShiftMod(p % (2 * c), k, 2 * c)
        rem == r % c                    \* remainder of p * 2^k by c
        qOdd == (r \div c) = 1          \* parity of the quotient of p * 2^k by c
    IN  /\ rem # 0
        /\ \/ 2 * rem < c
           \/ 2 * rem = c /\ ~qOdd

ToFixed2Floor(num, den) ==
    LET p == Abs(num)
        c == Abs(den)
        mag == (100 * p) \div c
    IN  IF (num < 0) # (den < 0) THEN -mag ELSE mag

\* Number((num / den).toFixed(2)) * 100 for den # 0.  toFixed rounds the exact
\* value of the double quotient to the nearest hundredth, the larger one on an
\* exact tie; a rational tie p/c = (2n+1)/200 goes the way its double lies.
ToFixed2(num, den) ==
    LET p == Abs(num)
        c == Abs(den)
        q == (100 * p) \div c
        r == (100 * p) % c
        mag == IF 2 * r > c THEN q + 1
               ELSE IF 2 * r < c THEN q
               ELSE IF QuotientBelow(p, c) THEN q ELSE q + 1
    IN  IF (num < 0) # (den < 0) THEN -mag ELSE mag

-----------------------------------------------------------------------------
(* Option-chain data (types.ts): a StrikeRecord holds optional legs *)

\* an absent leg (the field is undefined)
NoLeg == [undefined |-> TRUE]

Leg(oi, vol, chg) ==
    [openInterest |-> oi, totalTradedVolume |-> vol, changeinOpenInterest |-> chg]

StrikeRec(strike, ce, pe) == [strikePrice |-> strike, CE |-> ce, PE |-> pe]

\* record.CE?.openInterest || 0   (leg is record.CE or record.PE)
OpenInterestOf(leg) == IF leg = NoLeg THEN 0 ELSE leg.openInterest

\* record.CE?.totalTradedVolume || 0
VolumeOf(leg) == IF leg = NoLeg THEN 0 ELSE leg.totalTradedVolume

\* record.CE?.changeinOpenInterest || 0
ChangeOIOf(leg) == IF leg = NoLeg THEN 0 ELSE leg.changeinOpenInterest

StrikePricesOf(d) == [i \in 1..Len(d) |-> d[i].strikePrice]

-----------------------------------------------------------------------------
(* calculateMaxPain *)

RECURSIVE InsertAscending(_, _)
InsertAscending(sorted, x) ==
    IF sorted = <<>> THEN <<x>>
    ELSE IF x < Head(sorted) THEN <<x>> \o sorted
    ELSE <<Head(sorted)>> \o InsertAscending(Tail(sorted), x)

RECURSIVE SortAscending(_)
\* numbers.sort((a, b) => a - b)
SortAscending(xs) ==
    IF xs = <<>> THEN <<>>
    ELSE InsertAscending(SortAscending(SubSeq(xs, 1, Len(xs) - 1)), xs[Len(xs)])

\* one pass of the inner loop body for `record`, adding to totalLoss
LossStep(totalLoss, expirationStrike, record) ==
    LET strike == record.strikePrice
        ceOI == OpenInterestOf(record.CE)
        peOI == OpenInterestOf(record.PE)
        afterCall == IF expirationStrike > strike
                     THEN totalLoss + (expirationStrike - strike) * ceOI
                     ELSE totalLoss
    IN  IF strike > expirationStrike
        THEN afterCall + (strike - expirationStrike) * peOI
        ELSE afterCall

RECURSIVE TotalLoss(_, _, _, _)
\* the inner loop `for (const record of data)`, from index i on
TotalLoss(d, expirationStrike, i, totalLoss) ==
    IF i > Len(d) THEN totalLoss
    ELSE TotalLoss(d, expirationStrike, i + 1, LossStep(totalLoss, expirationStrike, d[i]))

\* minTotalLoss is <<>> while it still holds Number.MAX_VALUE, else <<loss>>
IsNewMinLE(totalLoss, minTotalLoss) ==
    minTotalLoss = <<>> \/ totalLoss <= minTotalLoss[1]

\* totalLoss < minTotalLoss
IsNewMin(totalLoss, minTotalLoss) ==
    minTotalLoss = <<>> \/ totalLoss < minTotalLoss[1]

RECURSIVE MaxPainLoop(_, _, _, _, _)
\* the outer loop `for (const expirationStrike of strikes)`, from index k on
MaxPainLoop(d, strikes, k, minTotalLoss, maxPainStrike) ==
    IF k > Len(strikes) THEN maxPainStrike
    ELSE LET totalLoss == TotalLoss(d, strikes[k], 1, 0)
         IN  IF IsNewMin(totalLoss, minTotalLoss)
             THEN MaxPainLoop(d, strikes, k + 1, <<totalLoss>>, strikes[k])
             ELSE MaxPainLoop(d, strikes, k + 1, minTotalLoss, maxPainStrike)

calculateMaxPain(d) ==
    IF Len(d) = 0 THEN 0
    ELSE MaxPainLoop(d, SortAscending(StrikePricesOf(d)), 1, <<>>, 0)

-----------------------------------------------------------------------------
(* getATMStrike *)

NearerNoAbs(curr, prev, spotPrice) ==
    IF curr - spotPrice < prev - spotPrice THEN curr ELSE prev

NearerLast(curr, prev, spotPrice) ==
    IF Abs(curr - spotPrice) <= Abs(prev - spotPrice) THEN curr ELSE prev

\* the reducer: Math.abs(curr - spotPrice) < Math.abs(prev - spotPrice) ? curr : prev
Nearer(curr, prev, spotPrice) ==
    IF Abs(curr - spotPrice) < Abs(prev - spotPrice) THEN curr ELSE prev

RECURSIVE ReduceNearest(_, _, _, _)
\* strikes.reduce(...) without an initial value, from index i on
ReduceNearest(strikes, i, prev, spotPrice) ==
    IF i > Len(strikes) THEN prev
    ELSE ReduceNearest(strikes, i + 1, Nearer(strikes[i], prev, spotPrice), spotPrice)

getATMStrike(spotPrice, strikes) ==
    IF Len(strikes) = 0 THEN 0
    ELSE ReduceNearest(strikes, 2, strikes[1], spotPrice)

-----------------------------------------------------------------------------
(* analyzeOptionChain *)

\* data.filter(d => d.CE && d.PE)
ValidData(d) == SelectSeq(d, LAMBDA r : r.CE # NoLeg /\ r.PE # NoLeg)

Totals0 ==
    [totalCallOI |-> 0, totalPutOI |-> 0, totalCallVol |-> 0, totalPutVol |-> 0,
     totalCallChangeOI |-> 0, totalPutChangeOI |-> 0,
     maxCallOI |-> 0, maxPutOI |-> 0, resistance |-> 0, support |-> 0]

IsNewMaxGE(oi, maxOI) == oi >= maxOI

\* ceOI > maxCallOI, peOI > maxPutOI
IsNewMax(oi, maxOI) == oi > maxOI

\* the body of validData.forEach for one record
Accumulate(acc, record) ==
    LET ceOI == OpenInterestOf(record.CE)
        peOI == OpenInterestOf(record.PE)
        newRes == IsNewMax(ceOI, acc.maxCallOI)
        newSup == IsNewMax(peOI, acc.maxPutOI)
    IN  [totalCallOI |-> acc.totalCallOI + ceOI,
         totalPutOI |-> acc.totalPutOI + peOI,
         totalCallVol |-> acc.totalCallVol + VolumeOf(record.CE),
         totalPutVol |-> acc.totalPutVol + VolumeOf(record.PE),
         totalCallChangeOI |-> acc.totalCallChangeOI + ChangeOIOf(record.CE),
         totalPutChangeOI |-> acc.totalPutChangeOI + ChangeOIOf(record.PE),
         maxCallOI |-> IF newRes THEN ceOI ELSE acc.maxCallOI,
         resistance |-> IF newRes THEN record.strikePrice ELSE acc.resistance,
         maxPutOI |-> IF newSup THEN peOI ELSE acc.maxPutOI,
         support |-> IF newSup THEN record.strikePrice ELSE acc.support]

RECURSIVE ForEach(_, _, _)
ForEach(d, i, acc) ==
    IF i > Len(d) THEN acc ELSE ForEach(d, i + 1, Accumulate(acc, d[i]))

RatioFloor(put, callTotal) ==
    IF callTotal = 0 THEN 0 ELSE ToFixed2Floor(put, callTotal)

\* total === 0 ? 0 : Number((put / total).toFixed(2)), in hundredths
Ratio(put, callTotal) ==
    IF callTotal = 0 THEN 0 ELSE ToFixed2(put, callTotal)

\* the cascade with the change-in-OI rules tried before the PCR rules
TrendChangeFirst(pcr, totalPutChangeOI, totalCallChangeOI) ==
    IF totalPutChangeOI > totalCallChangeOI THEN "Bullish"
    ELSE IF totalCallChangeOI > totalPutChangeOI THEN "Bearish"
    ELSE IF pcr > 120 THEN "Bullish"
    ELSE IF pcr < 60 THEN "Bearish"
    ELSE "Neutral"

\* the trend cascade; pcr is in hundredths, so 1.2 is 120 and 0.6 is 60
Trend(pcr, totalPutChangeOI, totalCallChangeOI) ==
    IF pcr > 120 THEN "Bullish"
    ELSE IF pcr < 60 THEN "Bearish"
    ELSE IF totalPutChangeOI > totalCallChangeOI THEN "Bullish"
    ELSE IF totalCallChangeOI > totalPutChangeOI THEN "Bearish"
    ELSE "Neutral"

analyzeOptionChain(d, spot) ==
    LET validData == ValidData(d)
        t == ForEach(validData, 1, Totals0)
        pcr == Ratio(t.totalPutOI, t.totalCallOI)
    IN  [pcr |-> pcr,
         pcrVol |-> Ratio(t.totalPutVol, t.totalCallVol),
         maxPain |-> calculateMaxPain(validData),
         callOI |-> t.totalCallOI,
         putOI |-> t.totalPutOI,
         callChangeOI |-> t.totalCallChangeOI,
         putChangeOI |-> t.totalPutChangeOI,
         atmStrike |-> getATMStrike(spot, StrikePricesOf(validData)),
         trend |-> Trend(pcr, t.totalPutChangeOI, t.totalCallChangeOI),
         support |-> t.support,
         resistance |-> t.resistance]

-----------------------------------------------------------------------------
(* Timestamps.  A timestamp is a string; the model keeps its format and the *)
(* instant it denotes.  "iso" is Date.prototype.toISOString's format, which *)
(* contains a 'T'; "local" is the parser's `${tradingDate} ${HH:MM}:00`,     *)
(* which does not.  Two strings of different formats can denote the same    *)
(* instant, and are then different strings.                                 *)

Timestamp(fmt, t) == [fmt |-> fmt, t |-> t]

\* timestamp.includes('T')
IncludesT(ts) == ts.fmt = "iso"

\* new Date(n).toISOString()
ToISOString(n) == Timestamp("iso", n)

\* new Date(timestamp).getTime()
GetTime(ts) == ts.t

-----------------------------------------------------------------------------
(* The snapshot store (dataService.ts) *)

\* .slice(0, 100) in saveSnapshot
RecordLimit == 100

\* .slice(0, 200) in saveBackfilledSnapshots
BatchLimit == 200

NSEResponse(d, ts, u) ==
    [records |-> [data |-> d, timestamp |-> ts, underlyingValue |-> u]]

\* the Snapshot object built by saveSnapshot at clock reading n
NewSnapshot(response, n) ==
    LET analysis == analyzeOptionChain(response.records.data,
                                       response.records.underlyingValue)
    IN  [id |-> [kind |-> "live", n |-> n],
         timestamp |-> IF IncludesT(response.records.timestamp)
                       THEN response.records.timestamp
                       ELSE ToISOString(n),
         underlyingValue |-> response.records.underlyingValue,
         pcr |-> analysis.pcr,
         maxPain |-> analysis.maxPain,
         ceTotalOI |-> analysis.callOI,
         peTotalOI |-> analysis.putOI]

\* localStorage.getItem(STORAGE_KEY) is null (<<>>) or the stored text (<<array>>);
\* existingData ? JSON.parse(existingData) : []
ParseItem(item) == IF item = <<>> THEN <<>> ELSE item[1]

\* the comparator with its sign reversed: oldest first
ComesBeforeAscending(a, b) == GetTime(a.timestamp) < GetTime(b.timestamp)

\* the comparator (a, b) => new Date(b.timestamp).getTime() - new Date(a.timestamp).getTime()
\* is negative: a is placed before b
ComesBefore(a, b) == GetTime(a.timestamp) > GetTime(b.timestamp)

MinutesPerDay == 24 * 60

\* every instant of the model lies in 0..MaxTime
MaxTime == MinutesPerDay

RECURSIVE SortRange(_, _, _)
\* arr, whose instants lie in lo..hi, with the later instants first and the
\* array order kept among equal instants
SortRange(arr, lo, hi) ==
    IF Len(arr) <= 1 \/ lo >= hi THEN arr
    ELSE LET mid == (lo + hi) \div 2
             pivot == [timestamp |-> Timestamp("iso", mid)]
             later == SelectSeq(arr, LAMBDA x : ComesBefore(x, pivot))
             rest == SelectSeq(arr, LAMBDA x : ~ComesBefore(x, pivot))
         IN  SortRange(later, mid + 1, hi) \o SortRange(rest, lo, mid)

\* Array.prototype.sort with the comparator above.  The sort is stable
\* (ECMAScript 2019), so its result is the one order that puts a before b
\* whenever the comparator does and keeps the array order otherwise.
SortByTimeDesc(arr) == SortRange(arr, 0, MaxTime)

\* the array left as long as it is
NoSlice(arr, n) == arr

\* arr.slice(0, n)
Slice(arr, n) == SubSeq(arr, 1, Min2(n, Len(arr)))

RECURSIVE FilterFirst(_)
\* combined.filter((v, i, a) => a.findIndex(t => t.timestamp === v.timestamp) === i):
\* v is kept iff no earlier element has its timestamp.  Computed by halves: the
\* kept elements of the first half, then those of the second half whose
\* timestamp does not occur in the first.
FilterFirst(a) ==
    IF Len(a) <= 1 THEN a
    ELSE LET m == Len(a) \div 2
             first == SubSeq(a, 1, m)
             seen == {first[i].timestamp : i \in 1..m}
         IN  FilterFirst(first)
             \o SelectSeq(FilterFirst(SubSeq(a, m + 1, Len(a))),
                          LAMBDA v : v.timestamp \notin seen)

\* no filter: every entry of the sorted array is kept
KeepAll(a) == a

Unique(a) == FilterFirst(a)

\* the array saveSnapshot writes
saveSnapshot(response, n, item) ==
    Slice(SortByTimeDesc(<<NewSnapshot(response, n)>> \o ParseItem(item)), RecordLimit)

\* the array saveBackfilledSnapshots writes
saveBackfilledSnapshots(snapshots, item) ==
    Slice(Unique(SortByTimeDesc(snapshots \o ParseItem(item))), BatchLimit)

\* a store call working on the item its handler found when it started
getItemAtStart(current, atStart) == atStart

\* localStorage.getItem(STORAGE_KEY) in saveSnapshot and
\* saveBackfilledSnapshots: the item as it is when the store call runs,
\* whatever it was when the handler that calls it started
getItem(current, atStart) == current

\* getSnapshots(): data ? JSON.parse(data) : []
getSnapshots == ParseItem(storage)

-----------------------------------------------------------------------------
(* The analytics functions called on bounded inputs *)

StrikeInputs == {17900, 17950, 18000}

\* strikes outside the range of StrikeInputs, for a record added later
OuterStrikeInputs == {17850, 18050}

ZeroLeg == Leg(0, 0, 0)

LegInputs == {ZeroLeg, Leg(1, 2, -1), Leg(3, 1, 2)}

\* records with both legs, and records that lack one leg
RecordInputs ==
    {StrikeRec(s, ce, pe) : s \in StrikeInputs, ce \in LegInputs, pe \in LegInputs}
    \cup {StrikeRec(s, NoLeg, Leg(3, 1, 2)) : s \in StrikeInputs}
    \cup {StrikeRec(s, Leg(3, 1, 2), NoLeg) : s \in StrikeInputs}

SpotInputs == {17925, 17950}

\* the two-strike chain of the support/resistance scenario
ScenarioLevels ==
    <<StrikeRec(17900, Leg(1000, 10, 0), Leg(500, 10, 0)),
      StrikeRec(18000, Leg(500, 10, 0), Leg(1500, 10, 0))>>

\* the totals of MOCK_DATA (constants.ts): Call OI 1500000, Put OI 1200000
ScenarioTotals ==
    <<StrikeRec(17950, Leg(1500000, 5000000, 0), Leg(1200000, 4500000, 0))>>

\* ratios 3/40 and 1/40, halfway between two hundredths
ScenarioHalfway ==
    <<StrikeRec(17900, Leg(40, 40, 0), Leg(3, 1, 0))>>

\* ratio 1.204, which rounds to the 1.2 of the trend cascade, with the Call
\* change in OI above the Put change
ScenarioBoundary ==
    <<StrikeRec(17900, Leg(1000, 10, 5), Leg(1204, 10, 0))>>

AnalysisInputs ==
    {[data |-> d, spot |-> u] : d \in SeqsUpTo(RecordInputs, MaxStrikes), u \in SpotInputs}
    \cup {[data |-> ScenarioLevels, spot |-> 17980],
          [data |-> ScenarioTotals, spot |-> 17950],
          [data |-> ScenarioHalfway, spot |-> 17900],
          [data |-> ScenarioBoundary, spot |-> 17900]}

\* handleBackfill is not running
NoRun == [pc |-> "idle"]

\* loadData is not running and has not run
NoLoad ==
    [pc |-> "idle", started |-> 0, symbol |-> <<>>, itemAtStart |-> <<>>,
     startedDuring |-> <<>>, saves |-> <<>>]

\* the React state before any handler has set it: data and analysis null,
\* lastUpdated '', history [], loading false, backfilling false,
\* backfillProgress '' (a null and an empty string are <<>>)
NoView ==
    [data |-> <<>>, analysis |-> <<>>, lastUpdated |-> <<>>, history |-> <<>>,
     loading |-> FALSE, backfilling |-> FALSE, backfillProgress |-> <<>>]

NoCall == [fn |-> "none", result |-> 0, before |-> <<>>, added |-> <<>>]

\* no store operation has been called yet
NoStoreCall ==
    [op |-> "none", before |-> <<>>, snapshot |-> <<>>, batch |-> <<>>,
     repeat |-> FALSE, calls |-> 0]

InitAnalysis ==
    /\ \E in \in AnalysisInputs :
          /\ data = in.data
          /\ underlyingValue = in.spot
    /\ call = NoCall
    /\ storage = <<>>
    /\ now = 0
    /\ last = NoStoreCall
    /\ backfill = NoRun
    /\ live = NoLoad
    /\ view = NoView

CallCalculateMaxPain ==
    /\ call = NoCall
    /\ call' = [fn |-> "calculateMaxPain", result |-> calculateMaxPain(data),
                before |-> <<>>, added |-> <<>>]
    /\ UNCHANGED <<data, underlyingValue, storeVars, backfillVars>>

CallGetATMStrike ==
    /\ call = NoCall
    /\ call' = [fn |-> "getATMStrike",
                result |-> getATMStrike(underlyingValue, StrikePricesOf(data)),
                before |-> <<>>, added |-> <<>>]
    /\ UNCHANGED <<data, underlyingValue, storeVars, backfillVars>>

CallAnalyzeOptionChain ==
    /\ call = NoCall
    /\ call' = [fn |-> "analyzeOptionChain",
                result |-> analyzeOptionChain(data, underlyingValue),
                before |-> <<>>, added |-> <<>>]
    /\ UNCHANGED <<data, underlyingValue, storeVars, backfillVars>>

StrikeSet(d) == Range(StrikePricesOf(d))

\* A record with zero open interest on both legs is added at strike x, outside
\* the range of the strikes present, and calculateMaxPain is called again.
CallMaxPainWithZeroStrike(x) ==
    /\ call.fn = "calculateMaxPain"
    /\ call.added = <<>>
    /\ Len(data) > 0
    /\ \/ \A s \in StrikeSet(data) : x < s
       \/ \A s \in StrikeSet(data) : x > s
    /\ data' = IF \A s \in StrikeSet(data) : x < s
               THEN <<StrikeRec(x, ZeroLeg, ZeroLeg)>> \o data
               ELSE Append(data, StrikeRec(x, ZeroLeg, ZeroLeg))
    /\ call' = [fn |-> "calculateMaxPain", result |-> calculateMaxPain(data'),
                before |-> <<call.result>>, added |-> <<x>>]
    /\ UNCHANGED <<underlyingValue, storeVars, backfillVars>>

NextAnalysis ==
    \/ CallCalculateMaxPain
    \/ CallGetATMStrike
    \/ CallAnalyzeOptionChain
    \/ \E x \in OuterStrikeInputs : CallMaxPainWithZeroStrike(x)

SpecAnalysis == InitAnalysis /\ [][NextAnalysis]_vars

-----------------------------------------------------------------------------
(* Properties of the analytics functions, checked under SpecAnalysis *)

\* loss(E) of the Max Pain definition: call writers lose (E - S) * CallOI(S) on
\* every strike S below E, put writers (S - E) * PutOI(S) on every strike above
WriterLoss(E, d) ==
    SumOver([i \in 1..Len(d) |->
                 IF d[i].strikePrice < E
                 THEN (E - d[i].strikePrice) * OpenInterestOf(d[i].CE)
                 ELSE IF d[i].strikePrice > E
                 THEN (d[i].strikePrice - E) * OpenInterestOf(d[i].PE)
                 ELSE 0],
            1..Len(d))

\* positions of the records that have both legs
BothLegs(d) == {i \in 1..Len(d) : d[i].CE # NoLeg /\ d[i].PE # NoLeg}

TotalPutOI(d) == SumOver([i \in 1..Len(d) |-> OpenInterestOf(d[i].PE)], 1..Len(d))

IsAscending(d) == \A i, j \in 1..Len(d) : i < j => d[i].strikePrice < d[j].strikePrice

\* C5: calculateMaxPain of a non-empty list returns one of its strikes, of
\* minimal loss, and the lowest strike among those of minimal loss.
MaxPainMinimizesLoss ==
    (call.fn = "calculateMaxPain" /\ Len(data) > 0) =>
        /\ call.result \in StrikeSet(data)
        /\ \A E \in StrikeSet(data) :
              /\ WriterLoss(call.result, data) <= WriterLoss(E, data)
              /\ WriterLoss(E, data) = WriterLoss(call.result, data) => call.result <= E

\* two strikes share a positive minimal loss and the lower one was returned
MaxPainTieReached ==
    /\ call.fn = "calculateMaxPain"
    /\ WriterLoss(call.result, data) > 0
    /\ \E E \in StrikeSet(data) :
          /\ E > call.result
          /\ WriterLoss(E, data) = WriterLoss(call.result, data)

\* C6 as stated: a zero-OI record added outside the strike range never changes
\* the Max Pain strike.
ZeroStrikeKeepsMaxPain ==
    call.added # <<>> => call.result = call.before[1]

AddedBelow == \A s \in StrikeSet(data) : call.added[1] <= s

\* C6 amended: the Max Pain strike is unchanged, except that a zero-OI record
\* added below the lowest strike of a list whose total Put OI is 0 becomes the
\* Max Pain strike itself (it ties at loss 0 and is the lowest).
ZeroStrikeKeepsMaxPainUnlessNoPutOI ==
    call.added # <<>> =>
        call.result = IF AddedBelow /\ TotalPutOI(data) = 0
                      THEN call.added[1]
                      ELSE call.before[1]

\* a record was added below a list with Put OI, and one above a list without
\* Call OI is covered by the same formula; here the one below
ZeroStrikeAddedBelowReached ==
    /\ call.added # <<>>
    /\ AddedBelow
    /\ TotalPutOI(data) > 0
    /\ Len(data) > 2
    /\ call.result = call.before[1]

\* n hundredths is p / c rounded to 2 decimals (a nearest hundredth), 0 if c = 0
IsRoundedRatio(n, p, c) ==
    IF c = 0 THEN n = 0 ELSE 2 * Abs(100 * p - n * c) <= c

SumBothLegs(d, f(_)) == SumOver([i \in 1..Len(d) |-> f(d[i])], BothLegs(d))

CallOIOfRecord(r) == r.CE.openInterest
PutOIOfRecord(r) == r.PE.openInterest
CallVolOfRecord(r) == r.CE.totalTradedVolume
PutVolOfRecord(r) == r.PE.totalTradedVolume

\* C7: pcr is sum(Put OI) / sum(Call OI) over the records with both legs, to the
\* nearest hundredth, and 0 when sum(Call OI) = 0; pcrVol likewise over volume.
PcrIsRoundedRatio ==
    call.fn = "analyzeOptionChain" =>
        /\ IsRoundedRatio(call.result.pcr,
                          SumBothLegs(data, PutOIOfRecord),
                          SumBothLegs(data, CallOIOfRecord))
        /\ IsRoundedRatio(call.result.pcrVol,
                          SumBothLegs(data, PutVolOfRecord),
                          SumBothLegs(data, CallVolOfRecord))

\* Put OI 1200000 over Call OI 1500000 gave 0.80
PcrScenarioReached ==
    /\ call.fn = "analyzeOptionChain"
    /\ SumBothLegs(data, PutOIOfRecord) = 1200000
    /\ SumBothLegs(data, CallOIOfRecord) = 1500000
    /\ call.result.pcr = 80
    /\ call.result.pcrVol = 90

\* C8 as stated: when the underlying price is the strike of some record, the ATM
\* strike of analyzeOptionChain is that price.
AtmIsExactStrike ==
    (call.fn = "analyzeOptionChain" /\ underlyingValue \in StrikeSet(data)) =>
        call.result.atmStrike = underlyingValue

\* C8 amended: when the underlying price is the strike of some record that has
\* both legs, the ATM strike of analyzeOptionChain is that price.
AtmIsExactTwoLeggedStrike ==
    (/\ call.fn = "analyzeOptionChain"
     /\ \E i \in BothLegs(data) : data[i].strikePrice = underlyingValue) =>
        call.result.atmStrike = underlyingValue

\* the underlying price is the strike of a two-legged record that is not the
\* first of the list, and the ATM strike is that price
AtmExactReached ==
    /\ call.fn = "analyzeOptionChain"
    /\ \E i \in BothLegs(data) : i > 1 /\ data[i].strikePrice = underlyingValue
    /\ data[1].strikePrice # underlyingValue
    /\ call.result.atmStrike = underlyingValue

Distance(s) == Abs(s - underlyingValue)

\* C9: getATMStrike returns 0 for an empty list, and otherwise the first strike
\* of the list among those nearest to the spot price.
AtmIsFirstNearest ==
    call.fn = "getATMStrike" =>
        LET strikes == StrikePricesOf(data)
        IN  IF Len(strikes) = 0 THEN call.result = 0
            ELSE \E i \in 1..Len(strikes) :
                    /\ call.result = strikes[i]
                    /\ \A j \in 1..Len(strikes) : Distance(strikes[i]) <= Distance(strikes[j])
                    /\ \A j \in 1..(i - 1) : Distance(strikes[j]) > Distance(strikes[i])

\* two different strikes are equally near and the one listed first was returned
AtmTieReached ==
    /\ call.fn = "getATMStrike"
    /\ \E i, j \in 1..Len(data) :
          /\ i < j
          /\ data[i].strikePrice # data[j].strikePrice
          /\ Distance(data[i].strikePrice) = Distance(data[j].strikePrice)
          /\ call.result = data[i].strikePrice

\* the strike of the first record, among those at the positions I, whose
\* open interest oi(record) is maximal; 0 if I is empty or that maximum is 0
FirstMaxStrike(d, I, oi(_)) ==
    IF \A i \in I : oi(d[i]) = 0 THEN 0
    ELSE LET first == CHOOSE i \in I :
                         /\ \A j \in I : oi(d[j]) <= oi(d[i])
                         /\ \A j \in I : j < i => oi(d[j]) < oi(d[i])
         IN  d[first].strikePrice

AnyCallOI(r) == OpenInterestOf(r.CE)
AnyPutOI(r) == OpenInterestOf(r.PE)

\* the lowest strike among the records of maximal oi, over all records
LowestMaxStrike(d, oi(_)) ==
    CHOOSE s \in StrikeSet(d) :
        /\ \E i \in 1..Len(d) : d[i].strikePrice = s /\ \A j \in 1..Len(d) : oi(d[j]) <= oi(d[i])
        /\ \A i \in 1..Len(d) :
              (\A j \in 1..Len(d) : oi(d[j]) <= oi(d[i])) => s <= d[i].strikePrice

\* C10 as stated, for an ascending snapshot: support is the strike of maximal Put
\* OI over all records, resistance that of maximal Call OI, the lower on a tie.
LevelsOverAllStrikes ==
    (call.fn = "analyzeOptionChain" /\ Len(data) > 0 /\ IsAscending(data)) =>
        /\ call.result.support = LowestMaxStrike(data, AnyPutOI)
        /\ call.result.resistance = LowestMaxStrike(data, AnyCallOI)

\* C10 amended: support is the strike of the first record (the lowest, in an
\* ascending snapshot), among the records with both legs, of maximal Put OI, and
\* 0 when no such record has Put OI; resistance likewise for Call OI.  The
\* scenario gives ATM 18000, support 18000, resistance 17900.
LevelsOverTwoLeggedStrikes ==
    call.fn = "analyzeOptionChain" =>
        /\ call.result.support = FirstMaxStrike(data, BothLegs(data), PutOIOfRecord)
        /\ call.result.resistance = FirstMaxStrike(data, BothLegs(data), CallOIOfRecord)
        /\ (data = ScenarioLevels /\ underlyingValue = 17980) =>
              /\ call.result.atmStrike = 18000
              /\ call.result.support = 18000
              /\ call.result.resistance = 17900

\* the scenario was analyzed
LevelsScenarioReached ==
    /\ call.fn = "analyzeOptionChain"
    /\ data = ScenarioLevels
    /\ underlyingValue = 17980
    /\ call.result.support = 18000
    /\ call.result.resistance = 17900

-----------------------------------------------------------------------------
(* The snapshot store called by loadData and handleBackfill *)

\* number of store calls of one run of the model
MaxCalls == 3

\* the clock reading when the model starts; earlier instants are history
ClockStart == RecordLimit + BatchLimit

\* Responses handed to saveSnapshot: the exchange's "28-Mar-2024 15:30:00"
\* style (no 'T'), the mock fallback's ISO timestamp, and ISO timestamps of
\* two instants that are history when the call is made.
ResponseInputs ==
    {NSEResponse(ScenarioLevels, Timestamp("local", ClockStart), 17980),
     NSEResponse(ScenarioTotals, Timestamp("iso", ClockStart), 17950),
     NSEResponse(ScenarioHalfway, Timestamp("iso", RecordLimit), 17900),
     NSEResponse(ScenarioHalfway, Timestamp("iso", RecordLimit + 2), 17900)}

BackfillAnalysis == analyzeOptionChain(ScenarioLevels, 17980)

\* the Snapshot handleBackfill pushes for interval `time` in run `run`
BackfillSnapshot(time, ts, run) ==
    [id |-> [kind |-> "backfill", time |-> time, n |-> run],
     timestamp |-> ts,
     underlyingValue |-> 17980,
     pcr |-> BackfillAnalysis.pcr,
     pcrChangeOI |-> Ratio(BackfillAnalysis.putChangeOI, BackfillAnalysis.callChangeOI),
     maxPain |-> BackfillAnalysis.maxPain,
     ceTotalOI |-> BackfillAnalysis.callOI,
     peTotalOI |-> BackfillAnalysis.putOI]

\* one more interval than saveBackfilledSnapshots keeps, in the order
\* handleBackfill pushes them (earliest first)
LongBatch ==
    [i \in 1..(BatchLimit + 1) |-> BackfillSnapshot(i, Timestamp("local", i), 1)]

\* Batches handed to saveBackfilledSnapshots: no interval fetched; two
\* intervals; a later run over the second of them, which also carries a
\* timestamp twice and the ISO timestamp of a live response; a long run.
BatchInputs ==
    {<<>>,
     <<BackfillSnapshot(1, Timestamp("local", RecordLimit), 1),
       BackfillSnapshot(2, Timestamp("local", RecordLimit + 1), 1)>>,
     <<BackfillSnapshot(2, Timestamp("local", RecordLimit + 1), 2),
       BackfillSnapshot(3, Timestamp("iso", RecordLimit), 2),
       BackfillSnapshot(4, Timestamp("local", RecordLimit + 1), 2)>>,
     LongBatch}

Init ==
    /\ data = <<>>
    /\ underlyingValue = 0
    /\ call = NoCall
    /\ storage = <<>>
    /\ now = ClockStart
    /\ last = NoStoreCall
    /\ backfill = NoRun
    /\ live = NoLoad
    /\ view = NoView

\* loadData: saveSnapshot(response) when Date.now() reads n
SaveSnapshot(response, n) ==
    /\ last.calls < MaxCalls
    /\ storage' = <<saveSnapshot(response, n, storage)>>
    /\ now' = n
    /\ last' = [op |-> "saveSnapshot",
                before |-> ParseItem(storage),
                snapshot |-> NewSnapshot(response, n),
                batch |-> <<>>,
                repeat |-> /\ last.op = "saveSnapshot"
                           /\ last.snapshot.timestamp = NewSnapshot(response, n).timestamp,
                calls |-> last.calls + 1]
    /\ UNCHANGED <<analysisVars, backfillVars>>

\* handleBackfill: saveBackfilledSnapshots(newSnapshots)
SaveBackfilledSnapshots(snapshots) ==
    /\ last.calls < MaxCalls
    /\ storage' = <<saveBackfilledSnapshots(snapshots, storage)>>
    /\ last' = [op |-> "saveBackfilledSnapshots",
                before |-> ParseItem(storage),
                snapshot |-> <<>>,
                batch |-> snapshots,
                repeat |-> FALSE,
                calls |-> last.calls + 1]
    /\ UNCHANGED <<analysisVars, now, backfillVars>>

\* clearSnapshots(): localStorage.removeItem(STORAGE_KEY)
ClearSnapshots ==
    /\ last.calls < MaxCalls
    /\ storage' = <<>>
    /\ last' = [op |-> "clearSnapshots",
                before |-> ParseItem(storage),
                snapshot |-> <<>>,
                batch |-> <<>>,
                repeat |-> FALSE,
                calls |-> last.calls + 1]
    /\ UNCHANGED <<analysisVars, now, backfillVars>>

Next ==
    \/ \E response \in ResponseInputs : \E n \in {now, now + 1} : SaveSnapshot(response, n)
    \/ \E snapshots \in BatchInputs : SaveBackfilledSnapshots(snapshots)
    \/ ClearSnapshots

Spec == Init /\ [][Next]_vars

-----------------------------------------------------------------------------
(* Properties of the snapshot store, checked under Spec *)

\* how many entries of arr carry timestamp ts
Occurrences(arr, ts) == Cardinality({i \in DOMAIN arr : arr[i].timestamp = ts})

\* timestamps non-increasing along arr
IsMostRecentFirst(arr) ==
    \A i \in 1..(Len(arr) - 1) :
        GetTime(arr[i].timestamp) >= GetTime(arr[i + 1].timestamp)

\* C1 (as stated; the code violates it): after saveSnapshot has been called
\* twice in a row with snapshots of one and the same timestamp, getSnapshots()
\* holds exactly one entry with that timestamp.
RecordTwiceLeavesOneEntry ==
    (last.op = "saveSnapshot" /\ last.repeat)
        => Occurrences(getSnapshots, last.snapshot.timestamp) = 1

\* The collection the merge rule describes for c = batch + existing: of every
\* timestamp the first entry of c, the entries ordered by instant, latest
\* first, and by their place in c where the instants are equal, cut after
\* BatchLimit entries.  ranked[j] is the place of c[j] in that order.
IsMergeOf(result, batch, existing) ==
    LET c == batch \o existing
        firsts == {j \in DOMAIN c :
                      \A k \in 1..(j - 1) : c[k].timestamp # c[j].timestamp}
        ranked == [j \in firsts |->
                      1 + Cardinality({k \in firsts :
                              \/ GetTime(c[k].timestamp) > GetTime(c[j].timestamp)
                              \/ /\ GetTime(c[k].timestamp) = GetTime(c[j].timestamp)
                                 /\ k < j})]
    IN  /\ Len(result) = Min2(BatchLimit, Cardinality(firsts))
        /\ \A j \in firsts : ranked[j] <= BatchLimit => result[ranked[j]] = c[j]

\* C3: after saveBackfilledSnapshots(batch) the stored collection is batch +
\* existing, stably sorted by timestamp descending, with the first entry kept
\* for each exact timestamp, cut to the BatchLimit most recent entries; so no
\* timestamp occurs twice and a batch entry wins over an existing one.
BatchResultIsMerge ==
    last.op = "saveBackfilledSnapshots"
        => /\ IsMergeOf(getSnapshots, last.batch, last.before)
           /\ IsMostRecentFirst(getSnapshots)
           /\ \A i \in DOMAIN getSnapshots :
                  Occurrences(getSnapshots, getSnapshots[i].timestamp) = 1
           /\ \A i \in DOMAIN getSnapshots :
                  (\E k \in DOMAIN last.batch :
                       last.batch[k].timestamp = getSnapshots[i].timestamp)
                  => \E k \in DOMAIN last.batch : last.batch[k] = getSnapshots[i]

\* a batch was merged into a store that held one of its timestamps, carried a
\* timestamp twice itself, and the merge was cut to BatchLimit entries
BatchReplacedExistingReached ==
    /\ last.op = "saveBackfilledSnapshots"
    /\ \E i \in DOMAIN last.before, k \in DOMAIN last.batch :
           /\ last.before[i].timestamp = last.batch[k].timestamp
           /\ last.before[i] # last.batch[k]
    /\ \E j, k \in DOMAIN last.batch :
           j # k /\ last.batch[j].timestamp = last.batch[k].timestamp
    /\ Len(getSnapshots) < Len(last.before)

\* C4: after any sequence of saveSnapshot, saveBackfilledSnapshots and
\* clearSnapshots calls, getSnapshots() is ordered most-recent-first.
ListIsMostRecentFirst == IsMostRecentFirst(getSnapshots)

\* a live snapshot was recorded into a store where it is neither the most
\* recent nor the oldest entry
RecordedInTheMiddleReached ==
    /\ last.op = "saveSnapshot"
    /\ \E i \in 2..(Len(getSnapshots) - 1) :
           /\ getSnapshots[i] = last.snapshot
           /\ GetTime(getSnapshots[1].timestamp) > GetTime(last.snapshot.timestamp)
           /\ GetTime(getSnapshots[Len(getSnapshots)].timestamp)
                  < GetTime(last.snapshot.timestamp)

-----------------------------------------------------------------------------
(* saveSnapshot called more often than it keeps entries, from an empty store *)

\* how many calls are made beyond RecordLimit
ExtraRecords == 2

\* The timestamps of the successive responses.  "live": the exchange's
\* format, so every snapshot is stamped with the clock; "rising" and
\* "falling": ISO timestamps, each later (earlier) than all before it;
\* "zigzag": ISO timestamps alternately from a rising and a falling series,
\* so each lands among the entries already stored.
Feeds == {"live", "rising", "falling", "zigzag"}

FeedTimestamp(feed, k) ==
    CASE feed = "live" -> Timestamp("local", k)
      [] feed = "rising" -> Timestamp("iso", k)
      [] feed = "falling" -> Timestamp("iso", ClockStart - k)
      [] feed = "zigzag" -> IF k % 2 = 1 THEN Timestamp("iso", k)
                                         ELSE Timestamp("iso", ClockStart - k)

InitRetention ==
    /\ data = <<>>
    /\ underlyingValue = 0
    /\ call = NoCall
    /\ storage = <<>>
    /\ now = ClockStart
    /\ \E feed \in Feeds : last = [op |-> "none", feed |-> feed, created |-> <<>>]
    /\ backfill = NoRun
    /\ live = NoLoad
    /\ view = NoView

\* loadData: saveSnapshot(response) with the next response of the feed, one
\* clock tick after the call before
RecordNext ==
    /\ Len(last.created) < RecordLimit + ExtraRecords
    /\ LET response == NSEResponse(ScenarioLevels,
                                   FeedTimestamp(last.feed, Len(last.created) + 1),
                                   17980)
       IN  /\ storage' = <<saveSnapshot(response, now + 1, storage)>>
           /\ last' = [op |-> "saveSnapshot", feed |-> last.feed,
                       created |-> Append(last.created, NewSnapshot(response, now + 1))]
    /\ now' = now + 1
    /\ UNCHANGED <<analysisVars, backfillVars>>

NextRetention == RecordNext

SpecRetention == InitRetention /\ [][NextRetention]_vars

\* the timestamps of arr are pairwise distinct
DistinctTimestamps(arr) ==
    Cardinality({arr[i].timestamp : i \in DOMAIN arr}) = Len(arr)

\* C2: starting from an empty store, after N > RecordLimit saveSnapshot calls
\* with pairwise distinct timestamps, getSnapshots() returns exactly
\* RecordLimit entries, they are the entries with the latest timestamps among
\* all that were recorded, and they are ordered most-recent-first.
RetentionKeepsLatest ==
    (Len(last.created) > RecordLimit /\ DistinctTimestamps(last.created))
        => /\ Len(getSnapshots) = RecordLimit
           /\ IsMostRecentFirst(getSnapshots)
           /\ Range(getSnapshots) \subseteq Range(last.created)
           /\ DistinctTimestamps(getSnapshots)
           /\ \A c \in Range(last.created) \ Range(getSnapshots) :
                  GetTime(c.timestamp)
                      < GetTime(getSnapshots[RecordLimit].timestamp)

\* more than RecordLimit snapshots were recorded, the last of them was kept
\* among the older and the newer ones, and an earlier one was evicted
RetentionEvictedReached ==
    /\ Len(last.created) > RecordLimit
    /\ DistinctTimestamps(last.created)
    /\ \E i \in 2..(RecordLimit - 1) :
           getSnapshots[i] = last.created[Len(last.created)]
    /\ last.created[1] \notin Range(getSnapshots)

-----------------------------------------------------------------------------
(* Trend and empty input of analyzeOptionChain, checked under SpecAnalysis *)

CallChangeOfRecord(r) == r.CE.changeinOpenInterest
PutChangeOfRecord(r) == r.PE.changeinOpenInterest

\* C11: the trend of analyzeOptionChain is that of the first matching rule of
\* PCR > 1.2 Bullish, PCR < 0.6 Bearish, Put change > Call change Bullish,
\* Call change > Put change Bearish, else Neutral; so it is Neutral exactly when
\* 0.6 <= PCR <= 1.2 and the two change-in-OI totals are equal.
TrendFollowsCascade ==
    call.fn = "analyzeOptionChain" =>
        LET pcr == call.result.pcr
            dPut == SumBothLegs(data, PutChangeOfRecord)
            dCall == SumBothLegs(data, CallChangeOfRecord)
            trend == call.result.trend
        IN  /\ pcr > 120 => trend = "Bullish"
            /\ pcr < 60 => trend = "Bearish"
            /\ (60 <= pcr /\ pcr <= 120 /\ dPut > dCall) => trend = "Bullish"
            /\ (60 <= pcr /\ pcr <= 120 /\ dCall > dPut) => trend = "Bearish"
            /\ trend = "Neutral" <=> (60 <= pcr /\ pcr <= 120 /\ dPut = dCall)

\* PCR above 1.2 gave Bullish although the Call change in OI exceeds the Put
\* change: the earlier rule won
TrendFirstMatchReached ==
    /\ call.fn = "analyzeOptionChain"
    /\ call.result.pcr > 120
    /\ SumBothLegs(data, CallChangeOfRecord) > SumBothLegs(data, PutChangeOfRecord)
    /\ call.result.trend = "Bullish"

\* C12 (as stated; the code violates it): for an empty strike-record set
\* analyzeOptionChain returns PCR 0, PCR(Volume) 0, Max Pain 0, ATM 0, support
\* 0, resistance 0 and trend Neutral.
EmptyInputIsNeutral ==
    (call.fn = "analyzeOptionChain" /\ data = <<>>) =>
        /\ call.result.pcr = 0
        /\ call.result.pcrVol = 0
        /\ call.result.maxPain = 0
        /\ call.result.atmStrike = 0
        /\ call.result.support = 0
        /\ call.result.resistance = 0
        /\ call.result.trend = "Neutral"

-----------------------------------------------------------------------------
(* The snapshot parser (trendlyne.ts: fetchTrendlyneSnapshot).              *)
(* An optional JSON field is <<>> when absent and <<value>> when present.   *)
(* A scalar keeps whether the JSON holds a number or a string, which is     *)
(* what JavaScript's truthiness looks at: 0 is falsy, "0" is not.           *)

Scalar(kind, v) == [kind |-> kind, v |-> v]

\* `if (x)` for an optional scalar (the strings of the model are non-empty)
Truthy(x) == x # <<>> /\ ~(x[1].kind = "number" /\ x[1].v = 0)

\* a key of the strike mapping: a string, which is the canonical form of an
\* integer ("17900") or another spelling of a number ("17900.0")
Key(form, v) == [form |-> form, v |-> v]

\* parseFloat(x) / parseInt(x) of a scalar or key
ParseNumber(x) == x.v

\* a "HH:MM" label, as the numbers split(':').map(Number) makes of it
Label(h, m) == [h |-> h, m |-> m]

\* the instant `${tradingDate} ${timestamp}:00` denotes, in minutes
LabelInstant(tradingDate, time) == tradingDate * MinutesPerDay + time.h * 60 + time.m

\* what fetchTrendlyneSnapshot returns when it returns null
Null == [null |-> TRUE]

\* json.head?.status && json.head?.status !== 0 && json.head?.status !== '0'
IsErrorStatus(status) == Truthy(status) /\ status[1].v # 0

\* the underlying price: inputData.lp if truthy, else stockData.lp if truthy, else 0
UnderlyingOf(body) ==
    IF Truthy(body.inputLp) THEN ParseNumber(body.inputLp[1])
    ELSE IF Truthy(body.stockLp) THEN ParseNumber(body.stockLp[1])
    ELSE 0

\* body.oiData || {}: the entries of the mapping in insertion order
OiDataOf(body) == IF body.oiData = <<>> THEN <<>> ELSE body.oiData[1]

RECURSIVE InsertByKey(_, _)
InsertByKey(sorted, e) ==
    IF sorted = <<>> THEN <<e>>
    ELSE IF e.key.v < Head(sorted).key.v THEN <<e>> \o sorted
    ELSE <<Head(sorted)>> \o InsertByKey(Tail(sorted), e)

RECURSIVE IntegerKeysAscending(_)
IntegerKeysAscending(es) ==
    IF es = <<>> THEN <<>>
    ELSE InsertByKey(IntegerKeysAscending(SubSeq(es, 1, Len(es) - 1)), es[Len(es)])

\* Object.keys(oiData): the keys that are canonical integers in ascending
\* order, then the other keys in insertion order (each with its value)
ObjectKeys(oiData) ==
    IntegerKeysAscending(SelectSeq(oiData, LAMBDA e : e.key.form = "int"))
    \o SelectSeq(oiData, LAMBDA e : e.key.form # "int")

\* parseInt(sData.callOi || '0') for an optional field
ParseIntOrZero(field) == IF field = <<>> THEN 0 ELSE field[1]

\* a CE or PE leg as the parser builds it
ParsedLeg(strikePrice, oi, vol, chg) ==
    [strikePrice |-> strikePrice,
     openInterest |-> ParseIntOrZero(oi),
     totalTradedVolume |-> ParseIntOrZero(vol),
     changeinOpenInterest |-> ParseIntOrZero(chg)]

\* the StrikeRecord pushed for one key of oiData
ParsedStrike(e) ==
    LET strikePrice == ParseNumber(e.key)
        sData == e.sData[1]
    IN  StrikeRec(strikePrice,
                  ParsedLeg(strikePrice, sData.callOi, sData.callVol, sData.callOiChange),
                  ParsedLeg(strikePrice, sData.putOi, sData.putVol, sData.putOiChange))

RECURSIVE InsertByStrike(_, _)
InsertByStrike(sorted, r) ==
    IF sorted = <<>> THEN <<r>>
    ELSE IF r.strikePrice < Head(sorted).strikePrice THEN <<r>> \o sorted
    ELSE <<Head(sorted)>> \o InsertByStrike(Tail(sorted), r)

RECURSIVE SortByStrike(_)
\* strikes.sort((a, b) => a.strikePrice - b.strikePrice), a stable sort
SortByStrike(strikes) ==
    IF strikes = <<>> THEN <<>>
    ELSE InsertByStrike(SortByStrike(SubSeq(strikes, 1, Len(strikes) - 1)),
                        strikes[Len(strikes)])

\* underlyingValue === 0 && Object.keys(oiData).length === 0, with || for &&
IsEmptyReplyEither(spot, oiData) == spot = 0 \/ Len(oiData) = 0

\* underlyingValue === 0 && Object.keys(oiData).length === 0
IsEmptyReply(spot, oiData) == spot = 0 /\ Len(oiData) = 0

\* fetchTrendlyneSnapshot for the reply the provider gives to the request;
\* `today` is the date new Date() reads
fetchTrendlyneSnapshot(reply, time, today) ==
    IF reply.net = "rejects" THEN Null              \* fetch throws: catch
    ELSE IF ~reply.ok THEN Null
    ELSE IF reply.json = <<>> THEN Null             \* response.json() throws: catch
    ELSE IF IsErrorStatus(reply.json[1].status) THEN Null
    ELSE IF reply.json[1].body = <<>> THEN Null
    ELSE LET body == reply.json[1].body[1]
             oiData == OiDataOf(body)
             spot == UnderlyingOf(body)
             tradingDate == IF body.tradingDate = <<>> THEN today
                            ELSE body.tradingDate[1]
         IN  IF IsEmptyReply(spot, oiData) THEN Null
             ELSE IF \E i \in DOMAIN oiData : oiData[i].sData = <<>>
             THEN Null                              \* sData.callOi of null throws: catch
             ELSE NSEResponse(SortByStrike([i \in DOMAIN oiData |->
                                                ParsedStrike(ObjectKeys(oiData)[i])]),
                              Timestamp("local", LabelInstant(tradingDate, time)),
                              spot)

-----------------------------------------------------------------------------
(* The parser called on bounded replies *)

\* keys "17900", "18000" and "17900.0" of the strike mapping
KeyInputs == {Key("int", 17900), Key("int", 18000), Key("decimal", 17900)}

\* the raw fields of one strike; null; a strike without its volume fields
SDataInputs ==
    {<<[callOi |-> <<1000>>, putOi |-> <<500>>, callOiChange |-> <<10>>,
        putOiChange |-> <<-5>>, callVol |-> <<7>>, putVol |-> <<9>>]>>,
     <<[callOi |-> <<500>>, putOi |-> <<1500>>, callOiChange |-> <<0>>,
        putOiChange |-> <<0>>, callVol |-> <<>>, putVol |-> <<>>]>>,
     <<>>}

EntryInputs == {[key |-> k, sData |-> d] : k \in KeyInputs, d \in SDataInputs}

\* the mappings of up to MaxStrikes entries; an object holds a key once
OiDataInputs ==
    {m \in SeqsUpTo(EntryInputs, MaxStrikes) :
        \A i, j \in DOMAIN m : i # j => m[i].key # m[j].key}

BodyInputs ==
    {[oiData |-> o, inputLp |-> i, stockLp |-> k, tradingDate |-> d] :
        o \in {<<>>} \cup {<<m>> : m \in OiDataInputs},
        i \in {<<>>, <<Scalar("string", 22000)>>, <<Scalar("string", 0)>>,
               <<Scalar("number", 0)>>},
        k \in {<<>>, <<Scalar("string", 21000)>>},
        d \in {<<>>, <<0>>}}

\* fetch rejects; a status that is not ok; a body that is not JSON; JSON
ReplyInputs ==
    {[net |-> "rejects"],
     [net |-> "answers", ok |-> FALSE],
     [net |-> "answers", ok |-> TRUE, json |-> <<>>]}
    \cup {[net |-> "answers", ok |-> TRUE, json |-> <<[status |-> st, body |-> b]>>] :
            st \in {<<>>, <<Scalar("number", 0)>>, <<Scalar("string", 0)>>,
                    <<Scalar("number", 1)>>},
            b \in {<<>>} \cup {<<x>> : x \in BodyInputs}}

CallFetchTrendlyneSnapshot(reply, time) ==
    /\ call = NoCall
    /\ call' = [fn |-> "fetchTrendlyneSnapshot",
                reply |-> reply,
                time |-> time,
                result |-> fetchTrendlyneSnapshot(reply, time, 0),
                before |-> <<>>, added |-> <<>>]
    /\ UNCHANGED <<data, underlyingValue, storeVars, backfillVars>>

NextParser ==
    \E reply \in ReplyInputs : CallFetchTrendlyneSnapshot(reply, Label(9, 15))

SpecParser == Init /\ [][NextParser]_vars

\* the parser was called and the reply carried a body without an error status
ParserSawBody ==
    /\ call.fn = "fetchTrendlyneSnapshot"
    /\ call.reply.net = "answers"
    /\ call.reply.ok
    /\ call.reply.json # <<>>
    /\ ~IsErrorStatus(call.reply.json[1].status)
    /\ call.reply.json[1].body # <<>>

BodySeen == call.reply.json[1].body[1]

\* C13 (as stated): the parser returns no snapshot if the strike mapping is
\* absent, or if the underlying price is zero and the mapping is empty; an
\* empty mapping with a nonzero underlying price gives a snapshot of no strikes.
ParserFailsOnAbsentMapping ==
    ParserSawBody =>
        /\ BodySeen.oiData = <<>> => call.result = Null
        /\ (UnderlyingOf(BodySeen) = 0 /\ BodySeen.oiData = <<<<>>>>)
               => call.result = Null
        /\ (UnderlyingOf(BodySeen) # 0 /\ BodySeen.oiData = <<<<>>>>)
               => /\ call.result # Null
                  /\ call.result.records.data = <<>>

\* C13 amended: the parser returns no snapshot if the body is absent, or if
\* the underlying price is zero and the strike mapping is absent or empty; an
\* absent or empty mapping with a nonzero underlying price gives a snapshot of
\* no strikes with that price.
ParserFailsOnEmptyAndZero ==
    /\ (call.fn = "fetchTrendlyneSnapshot" /\ ~ParserSawBody) => call.result = Null
    /\ ParserSawBody =>
        /\ (UnderlyingOf(BodySeen) = 0 /\ BodySeen.oiData \in {<<>>, <<<<>>>>})
               => call.result = Null
        /\ (UnderlyingOf(BodySeen) # 0 /\ BodySeen.oiData \in {<<>>, <<<<>>>>})
               => /\ call.result # Null
                  /\ call.result.records.data = <<>>
                  /\ call.result.records.underlyingValue = UnderlyingOf(BodySeen)

\* a body without the strike mapping and with a nonzero price was parsed into
\* a snapshot of no strikes
AbsentMappingParsedReached ==
    /\ ParserSawBody
    /\ BodySeen.oiData = <<>>
    /\ UnderlyingOf(BodySeen) # 0
    /\ call.result # Null
    /\ call.result.records.data = <<>>

\* C14 (as stated; the code violates it): every snapshot the parser returns
\* has its strike records in ascending strike order, no two records with the
\* same strike price, and on every record the strike price of the Call leg
\* and of the Put leg equal to the record's.
ParsedSnapshotInvariant ==
    (call.fn = "fetchTrendlyneSnapshot" /\ call.result # Null) =>
        LET d == call.result.records.data
        IN  /\ \A i, j \in DOMAIN d : i < j => d[i].strikePrice < d[j].strikePrice
            /\ \A i \in DOMAIN d : /\ d[i].CE.strikePrice = d[i].strikePrice
                                   /\ d[i].PE.strikePrice = d[i].strikePrice

-----------------------------------------------------------------------------
(* generateTimeIntervals (trendlyne.ts).  A Date of today is the number of  *)
(* minutes since today's midnight; the day has no clock change.             *)

\* date.setHours(h, m, 0, 0)
SetHours(h, m) == h * 60 + m

\* date.getHours()
GetHours(date) == (date \div 60) % 24

\* date.getMinutes()
GetMinutes(date) == date % 60

\* date.setMinutes(m): the minutes field replaced, overflow carried
SetMinutes(date, m) == date - GetMinutes(date) + m

\* `current < end` in place of the loop condition
IsBefore(current, end) == current < end

\* the loop condition current <= end
IsNotAfter(current, end) == current <= end

RECURSIVE IntervalLoop(_, _, _, _)
\* while (current <= end) { times.push(`${h}:${m}`); current.setMinutes(...) }
IntervalLoop(current, end, intervalMinutes, times) ==
    IF IsNotAfter(current, end)
    THEN IntervalLoop(SetMinutes(current, GetMinutes(current) + intervalMinutes),
                      end, intervalMinutes,
                      Append(times, Label(GetHours(current), GetMinutes(current))))
    ELSE times

generateTimeIntervals(startTime, endTime, intervalMinutes) ==
    IntervalLoop(SetHours(startTime.h, startTime.m),
                 SetHours(endTime.h, endTime.m),
                 intervalMinutes, <<>>)

\* the longest list of labels the model asks for
MaxIntervals == 30

StartInputs == {Label(0, 0), Label(9, 15), Label(9, 50), Label(23, 30)}

EndInputs ==
    {Label(9, 5), Label(9, 14), Label(9, 15), Label(10, 0), Label(15, 30), Label(23, 59)}

StepInputs == {1, 7, 15, 45, 60, 600}

IntervalInputs ==
    {in \in [startTime : StartInputs, endTime : EndInputs, intervalMinutes : StepInputs] :
        SetHours(in.endTime.h, in.endTime.m) - SetHours(in.startTime.h, in.startTime.m)
            < MaxIntervals * in.intervalMinutes}

CallGenerateTimeIntervals(in) ==
    /\ call = NoCall
    /\ call' = [fn |-> "generateTimeIntervals",
                startTime |-> in.startTime,
                endTime |-> in.endTime,
                intervalMinutes |-> in.intervalMinutes,
                result |-> generateTimeIntervals(in.startTime, in.endTime,
                                                 in.intervalMinutes),
                before |-> <<>>, added |-> <<>>]
    /\ UNCHANGED <<data, underlyingValue, storeVars, backfillVars>>

NextIntervals == \E in \in IntervalInputs : CallGenerateTimeIntervals(in)

SpecIntervals == Init /\ [][NextIntervals]_vars

\* minutes since midnight of a label, and the label of a minute of the day
MinuteOfDay(label) == 60 * label.h + label.m
LabelOfMinute(x) == Label(x \div 60, x % 60)

\* C15: generateTimeIntervals(start, end, step) with step >= 1 returns, in
\* ascending order and without repetition, exactly the labels start + k * step
\* (k = 0, 1, ...) that are not later than end; none when end is before start.
IntervalsAreTheSteps ==
    (call.fn = "generateTimeIntervals" /\ call.intervalMinutes >= 1) =>
        LET first == MinuteOfDay(call.startTime)
            end == MinuteOfDay(call.endTime)
            count == IF end < first THEN 0
                     ELSE (end - first) \div call.intervalMinutes + 1
        IN  /\ call.result = [k \in 1..count |->
                                 LabelOfMinute(first + (k - 1) * call.intervalMinutes)]
            /\ \A i, j \in DOMAIN call.result :
                   i < j => MinuteOfDay(call.result[i]) < MinuteOfDay(call.result[j])
            /\ \A i \in DOMAIN call.result : MinuteOfDay(call.result[i]) <= end

\* 09:15 to 10:00 in steps of 15 gave 09:15, 09:30, 09:45, 10:00
IntervalsExampleReached ==
    /\ call.fn = "generateTimeIntervals"
    /\ call.startTime = Label(9, 15)
    /\ call.endTime = Label(10, 0)
    /\ call.intervalMinutes = 15
    /\ call.result = <<Label(9, 15), Label(9, 30), Label(9, 45), Label(10, 0)>>

-----------------------------------------------------------------------------
(* The backfill run: handleBackfill (App.tsx) with getStockId and          *)
(* getExpiryDates (trendlyne.ts).  The wall clock `now` is in minutes      *)
(* since today's midnight.  One run is followed from the click to its end; *)
(* no other handler runs meanwhile.  The run keeps, next to the locals of  *)
(* the handler, what it did: the requests it issued, what each returned,   *)
(* the alerts it raised and the batches it saved.                          *)

\* the values of INDICES (constants.ts) that selectedIndex ranges over
INDICES == {"NIFTY", "BANKNIFTY", "FINNIFTY"}

\* FALLBACK_IDS; the string of digits '1887' is Scalar("string", 1887)
FALLBACK_IDS ==
    [s \in {"NIFTY", "BANKNIFTY", "FINNIFTY"} |->
        IF s = "NIFTY" THEN Scalar("string", 1887)
        ELSE IF s = "BANKNIFTY" THEN Scalar("string", 1889)
        ELSE Scalar("string", 20374)]

\* stockId.toString()
NumberToString(x) == Scalar("string", x.v)

\* getStockId(symbol): the known id if there is one; else the id the search
\* reply carries at body.data[0].stock_id; null (<<>>) when the fetch rejects
\* or is aborted after 5 s, the status is not ok, the body is not JSON or
\* the id is missing or falsy
getStockId(symbol, reply) ==
    IF symbol \in DOMAIN FALLBACK_IDS THEN <<FALLBACK_IDS[symbol]>>
    ELSE IF reply.net = "rejects" THEN <<>>
    ELSE IF ~reply.ok THEN <<>>
    ELSE IF reply.json = <<>> THEN <<>>
    ELSE IF Truthy(reply.json[1].stock_id) THEN <<NumberToString(reply.json[1].stock_id[1])>>
    ELSE <<>>

\* getExpiryDates(stockId): json?.body?.data?.all_exp_list || [], and [] when
\* the fetch rejects, the status is not ok or the body is not JSON
getExpiryDates(stockId, reply) ==
    IF reply.net = "rejects" THEN <<>>
    ELSE IF ~reply.ok THEN <<>>
    ELSE IF reply.json = <<>> THEN <<>>
    ELSE IF reply.json[1].all_exp_list = <<>> THEN <<>>
    ELSE reply.json[1].all_exp_list[1]

\* expiries[expiries.length - 1] in place of expiries[0]
LastExpiry(expiries) == expiries[Len(expiries)]

\* const expiry = expiries[0]
FirstExpiry(expiries) == expiries[1]

\* the market taken as closed from 15:00 on
IsPostMarketFromThree(date) == GetHours(date) >= 15

\* now.getHours() > 15 || (now.getHours() === 15 && now.getMinutes() >= 30)
IsPostMarket(date) ==
    GetHours(date) > 15 \/ (GetHours(date) = 15 /\ GetMinutes(date) >= 30)

\* isPostMarket ? "15:30" : `${now.getHours()}:${now.getMinutes()}`
EndTime(date) ==
    IF IsPostMarket(date) THEN Label(15, 30)
    ELSE Label(GetHours(date), GetMinutes(date))

\* the Snapshot handleBackfill pushes for `response` of interval `time`
\* when Date.now() reads n
PushedSnapshot(response, time, n) ==
    LET resAnalysis == analyzeOptionChain(response.records.data,
                                          response.records.underlyingValue)
    IN  [id |-> [kind |-> "backfill", time |-> time, n |-> n],
         timestamp |-> response.records.timestamp,
         underlyingValue |-> response.records.underlyingValue,
         pcr |-> resAnalysis.pcr,
         pcrChangeOI |-> Ratio(resAnalysis.putChangeOI, resAnalysis.callChangeOI),
         maxPain |-> resAnalysis.maxPain,
         ceTotalOI |-> resAnalysis.callOI,
         peTotalOI |-> resAnalysis.putOI]

\* the summary put in front of the list
Unshift(list, x) == <<x>> \o list

\* newSnapshots.push(x)
Push(list, x) == Append(list, x)

\* the loop left before its last interval
MoreIntervalsButLast(index, intervals) == index < Len(intervals) - 1

\* for (const time of intervals): another interval follows the index-th
MoreIntervals(index, intervals) == index < Len(intervals)

\* the loop taking the same interval again
SameIndex(index) == index

\* the loop going on to the interval after the index-th
NextIndex(index) == index + 1

\* time === intervals[intervals.length - 1]
IsLastInterval(time, intervals) == time = intervals[Len(intervals)]

\* setData(response); setAnalysis(resAnalysis); setLastUpdated(`Backfilled ${time}`)
ViewOfInterval(v, response, time) ==
    [v EXCEPT !.data = <<response>>,
              !.analysis = <<analyzeOptionChain(response.records.data,
                                                response.records.underlyingValue)>>,
              !.lastUpdated = <<"Backfilled", time>>]

\* a handler that ends without its finally block
NoFinally(v) == v

\* finally { setBackfilling(false); setBackfillProgress('') }
Finally(v) == [v EXCEPT !.backfilling = FALSE, !.backfillProgress = <<>>]

\* how many interval fetches of one run fail, at most
MaxFailures == 1

\* how many minutes the expiry request takes, at most
MaxDelay == 1

\* the wall clock at the click: a minute before the session, in its first
\* hour, a minute before its end, a minute before midnight
ClockInputs ==
    {SetHours(9, 14), SetHours(9, 50), SetHours(15, 29), SetHours(23, 59)}

\* the reply of the search endpoint (read only for a symbol without known id)
LookupReplyInputs ==
    {[net |-> "rejects"],
     [net |-> "answers", ok |-> TRUE, json |-> <<[stock_id |-> <<Scalar("number", 1887)>>]>>]}

\* the reply of the expiry endpoint: rejected; not ok; not JSON; no list; an
\* empty list; a list of two dates, the later one first
ExpiryReplyInputs ==
    {[net |-> "rejects"],
     [net |-> "answers", ok |-> FALSE],
     [net |-> "answers", ok |-> TRUE, json |-> <<>>]}
    \cup {[net |-> "answers", ok |-> TRUE, json |-> <<[all_exp_list |-> l]>>] :
            l \in {<<>>, <<<<>>>>, <<<<"04-Apr-2024", "28-Mar-2024">>>>}}

\* the strike mapping of the reply for interval `time`: the changes in open
\* interest differ from one interval to the next, the Call changes adding up
\* to -3 .. 3 and the Put changes to -6 .. 5
SnapshotOiData(time) ==
    LET k == (60 * time.h + time.m) \div 15
    IN  <<[key |-> Key("int", 22000),
           sData |-> <<[callOi |-> <<1000>>, putOi |-> <<500>>,
                        callOiChange |-> <<(k % 7) - 3>>,
                        putOiChange |-> <<-5>>, callVol |-> <<7>>, putVol |-> <<9>>]>>],
          [key |-> Key("int", 21900),
           sData |-> <<[callOi |-> <<500>>, putOi |-> <<1500>>, callOiChange |-> <<0>>,
                        putOiChange |-> <<(k % 11) - 1>>,
                        callVol |-> <<>>, putVol |-> <<>>]>>]>>

\* the reply that carries the chain of interval `time`
ChainReply(time) ==
    [net |-> "answers", ok |-> TRUE,
     json |-> <<[status |-> <<Scalar("string", 0)>>,
                 body |-> <<[oiData |-> <<SnapshotOiData(time)>>,
                             inputLp |-> <<Scalar("string", 21950)>>,
                             stockLp |-> <<>>,
                             tradingDate |-> <<>>]>>]>>]

\* the labels of the session, 09:15 to 15:30
SessionLabels == {LabelOfMinute(SetHours(9, 15) + 15 * k) : k \in 0..25}

\* the reply of the snapshot endpoint: rejected, or the chain of an interval
SnapshotReplyInputs ==
    {[net |-> "rejects"]} \cup {ChainReply(time) : time \in SessionLabels}

\* the response loadData showed before the click, and the entry it stored
LiveResponse == NSEResponse(ScenarioLevels, Timestamp("iso", SetHours(8, 0)), 17980)

LiveView ==
    [NoView EXCEPT !.data = <<LiveResponse>>,
                   !.analysis = <<analyzeOptionChain(ScenarioLevels, 17980)>>,
                   !.lastUpdated = <<"time", SetHours(8, 0)>>,
                   !.history = <<NewSnapshot(LiveResponse, SetHours(8, 0))>>]

\* before the click: loadData has shown and stored one response
InitBackfill ==
    /\ data = <<>>
    /\ underlyingValue = 0
    /\ call = NoCall
    /\ last = NoStoreCall
    /\ backfill = NoRun
    /\ live = NoLoad
    /\ now \in ClockInputs
    /\ storage = <<LiveView.history>>
    /\ view = LiveView

\* the locals of a call of handleBackfill that has reached its first await;
\* `earlier` tells how the calls before it ended
NewRun(selectedIndex, earlier) ==
    [pc |-> "getStockId",
     selectedIndex |-> selectedIndex,
     stockId |-> <<>>,
     expiries |-> <<>>,
     expiry |-> <<>>,
     generatedAt |-> <<>>,
     intervals |-> <<>>,
     index |-> 0,
     newSnapshots |-> <<>>,
     requested |-> <<>>,
     outcomes |-> <<>>,
     failures |-> 0,
     alerts |-> <<>>,
     saved |-> <<>>,
     viewBefore |-> view,
     storageBefore |-> storage,
     startedAt |-> now,
     earlier |-> earlier]

\* the click: setBackfilling(true); setBackfillProgress('Initializing...');
\* getStockId(selectedIndex) is called
StartBackfill(selectedIndex) ==
    /\ backfill.pc = "idle"
    /\ ~view.backfilling
    /\ backfill' = NewRun(selectedIndex, <<>>)
    /\ view' = [view EXCEPT !.backfilling = TRUE,
                            !.backfillProgress = <<"Initializing...">>]
    /\ UNCHANGED <<analysisVars, storeVars, live>>

\* the end of the try block: setBackfillProgress(`Saving ...`);
\* saveBackfilledSnapshots(newSnapshots); setHistory(getSnapshots()); finally
SaveAndFinish(run, v) ==
    LET stored == saveBackfilledSnapshots(run.newSnapshots,
                                          getItem(storage, run.storageBefore))
    IN  /\ storage' = <<stored>>
        /\ backfill' = [run EXCEPT !.pc = "done",
                                   !.saved = Append(@, run.newSnapshots)]
        /\ view' = Finally([v EXCEPT !.history = stored])

\* alert(...); setBackfilling(false); return; finally
Abort(message) ==
    /\ backfill' = [backfill EXCEPT !.pc = "aborted", !.alerts = Append(@, message)]
    /\ view' = Finally(view)
    /\ UNCHANGED storage

\* getStockId returns
StockIdReturns(reply) ==
    /\ backfill.pc = "getStockId"
    /\ LET stockId == getStockId(backfill.selectedIndex, reply)
       IN  IF stockId = <<>>
           THEN Abort("Connection Failed: Could not find Stock ID")
           ELSE /\ backfill' = [backfill EXCEPT !.pc = "getExpiryDates",
                                                !.stockId = stockId]
                /\ view' = [view EXCEPT !.backfillProgress = <<"Found Stock ID...">>]
                /\ UNCHANGED storage
    /\ UNCHANGED <<analysisVars, now, last, live>>

\* getExpiryDates returns after `delay` minutes; the intervals are generated
\* and the first one is announced, or, if there is none, the run saves
ExpiryDatesReturn(reply, delay) ==
    /\ backfill.pc = "getExpiryDates"
    /\ now' = now + delay
    /\ LET expiries == getExpiryDates(backfill.stockId[1], reply)
           intervals == generateTimeIntervals(Label(9, 15), EndTime(now'), 15)
           run == [backfill EXCEPT !.expiries = expiries,
                                   !.expiry = <<FirstExpiry(expiries)>>,
                                   !.generatedAt = <<now'>>,
                                   !.intervals = intervals]
       IN  IF Len(expiries) = 0
           THEN Abort("Could not fetch expiry dates")
           ELSE IF intervals = <<>>
           THEN SaveAndFinish(run, view)
           ELSE /\ backfill' = [run EXCEPT !.pc = "delay", !.index = 1]
                /\ view' = [view EXCEPT !.backfillProgress = <<"Fetching", intervals[1]>>]
                /\ UNCHANGED storage
    /\ UNCHANGED <<analysisVars, last, live>>

\* the 200 ms are over: fetchTrendlyneSnapshot(stockId, expiry, time,
\* selectedIndex) is called
DelayElapses ==
    /\ backfill.pc = "delay"
    /\ backfill' = [backfill EXCEPT
                       !.pc = "fetch",
                       !.requested = Append(@, [stockId |-> backfill.stockId[1],
                                                expiry |-> backfill.expiry[1],
                                                time |-> backfill.intervals[backfill.index],
                                                symbol |-> backfill.selectedIndex])]
    /\ UNCHANGED <<analysisVars, storeVars, view, live>>

\* fetchTrendlyneSnapshot returns: the rest of the loop body, then the next
\* interval is announced or, after the last one, the run saves
SnapshotReturns(reply) ==
    /\ backfill.pc = "fetch"
    /\ reply.net = "answers" => reply = ChainReply(backfill.intervals[backfill.index])
    /\ LET time == backfill.intervals[backfill.index]
           response == fetchTrendlyneSnapshot(reply, time, 0)
           returned == [backfill EXCEPT
                           !.outcomes = Append(@, [time |-> time, response |-> response])]
           run == IF response = Null
                  THEN [returned EXCEPT !.failures = @ + 1]
                  ELSE [returned EXCEPT
                           !.newSnapshots = Push(@, PushedSnapshot(response, time, now))]
           shown == IF response # Null /\ IsLastInterval(time, backfill.intervals)
                    THEN ViewOfInterval(view, response, time)
                    ELSE view
       IN  /\ response = Null => backfill.failures < MaxFailures
           /\ IF MoreIntervals(backfill.index, backfill.intervals)
              THEN /\ backfill' = [run EXCEPT !.pc = "delay", !.index = NextIndex(@)]
                   /\ view' = [shown EXCEPT !.backfillProgress =
                                  <<"Fetching", backfill.intervals[NextIndex(backfill.index)]>>]
                   /\ UNCHANGED storage
              ELSE SaveAndFinish(run, shown)
    /\ UNCHANGED <<analysisVars, now, last, live>>

NextBackfill ==
    \/ \E selectedIndex \in INDICES : StartBackfill(selectedIndex)
    \/ \E reply \in LookupReplyInputs : StockIdReturns(reply)
    \/ \E reply \in ExpiryReplyInputs : \E delay \in 0..MaxDelay : ExpiryDatesReturn(reply, delay)
    \/ DelayElapses
    \/ \E reply \in SnapshotReplyInputs : SnapshotReturns(reply)

SpecBackfill == InitBackfill /\ [][NextBackfill]_vars

-----------------------------------------------------------------------------
(* Properties of the backfill run, checked under SpecBackfill *)

\* the run has passed the resolution of the identifier and of the expiry
PassedResolution == backfill.pc \in {"delay", "fetch", "done"}

\* `time` is a label of the generated sequence
IsAnyInterval(time) == \E i \in DOMAIN backfill.intervals : time = backfill.intervals[i]

\* the labels of the requests issued so far
RequestedTimes == [i \in DOMAIN backfill.requested |-> backfill.requested[i].time]

\* C16: a run in which getStockId returns no identifier or getExpiryDates
\* an empty list aborts with an alert; in that run no interval snapshot is
\* requested, saveBackfilledSnapshots is not called, and the stored
\* collection and the view are as they were before the click.  A run that
\* goes on uses the first expiry of the list for every interval request.
\* (Every symbol of INDICES has a known identifier, so only the empty expiry
\* list aborts a run.)
AbortLeavesNoTrace ==
    /\ (backfill.pc \in {"getExpiryDates", "delay", "fetch", "done"}) =>
           backfill.stockId # <<>>
    /\ PassedResolution => backfill.expiries # <<>>
    /\ backfill.pc = "aborted" =>
           /\ backfill.stockId = <<>> \/ backfill.expiries = <<>>
           /\ Len(backfill.alerts) = 1
           /\ backfill.requested = <<>>
           /\ backfill.saved = <<>>
           /\ storage = backfill.storageBefore
           /\ view = backfill.viewBefore
    /\ PassedResolution =>
           /\ backfill.alerts = <<>>
           /\ \A i \in DOMAIN backfill.requested :
                  /\ backfill.requested[i].expiry = backfill.expiries[1]
                  /\ backfill.requested[i].stockId = FALLBACK_IDS[backfill.selectedIndex]

\* a run was aborted for want of expiry dates
AbortOnEmptyExpiryReached ==
    /\ backfill.pc = "aborted"
    /\ backfill.stockId # <<>>
    /\ backfill.alerts = <<"Could not fetch expiry dates">>

\* the outcomes of the fetches that succeeded, in the order they returned
Succeeded == SelectSeq(backfill.outcomes, LAMBDA o : o.response # Null)

\* how many requests of the run have returned
Returned ==
    IF backfill.pc = "fetch" THEN backfill.index - 1
    ELSE IF backfill.pc = "delay" THEN backfill.index - 1
    ELSE Len(backfill.intervals)

\* how many requests of the run have been issued
Issued == IF backfill.pc = "fetch" THEN backfill.index ELSE Returned

\* C17: in a run that passed the resolution of identifier and expiry, the
\* intervals of the generated sequence are requested one by one, each once,
\* whatever the earlier requests returned; a failed fetch adds no summary
\* and does not abort the run; the collected summaries are those of the
\* intervals whose fetch succeeded, in interval order.
SkipAndContinue ==
    PassedResolution =>
        /\ RequestedTimes = SubSeq(backfill.intervals, 1, Issued)
        /\ [i \in DOMAIN backfill.outcomes |-> backfill.outcomes[i].time]
               = SubSeq(backfill.intervals, 1, Returned)
        /\ backfill.pc = "done" => RequestedTimes = backfill.intervals
        /\ \A i, j \in DOMAIN backfill.intervals :
               i # j => backfill.intervals[i] # backfill.intervals[j]
        /\ backfill.alerts = <<>>
        /\ backfill.newSnapshots =
               [i \in DOMAIN Succeeded |->
                   PushedSnapshot(Succeeded[i].response, Succeeded[i].time,
                                  backfill.generatedAt[1])]

\* a run ended in which a fetch failed and fetches before and after it succeeded
SkippedInTheMiddleReached ==
    /\ backfill.pc = "done"
    /\ \E i, j, k \in DOMAIN backfill.outcomes :
           /\ i < j /\ j < k
           /\ backfill.outcomes[i].response # Null
           /\ backfill.outcomes[j].response = Null
           /\ backfill.outcomes[k].response # Null
    /\ Len(backfill.newSnapshots) = Len(backfill.intervals) - 1

\* C18 (as stated; the code violates it): at the end of a run in which at
\* least one interval fetch succeeded, the data and the analysis of the view
\* are those of the last interval, in sequence order, whose fetch succeeded.
ViewIsLastSuccessfulInterval ==
    (backfill.pc = "done" /\ Succeeded # <<>>) =>
        LET response == Succeeded[Len(Succeeded)].response
        IN  /\ view.data = <<response>>
            /\ view.analysis = <<analyzeOptionChain(response.records.data,
                                                    response.records.underlyingValue)>>

\* C19: in a run that passed the resolution of identifier and expiry,
\* saveBackfilledSnapshots is called once, after the last interval of the
\* sequence has been processed, with the summaries collected in the run;
\* until then the run leaves the store as it was.
SavedOnceAtTheEnd ==
    /\ (backfill.pc \in {"getStockId", "getExpiryDates", "delay", "fetch"}) =>
           /\ backfill.saved = <<>>
           /\ storage = backfill.storageBefore
    /\ backfill.pc = "done" =>
           /\ backfill.saved = <<backfill.newSnapshots>>
           /\ Len(backfill.outcomes) = Len(backfill.intervals)
           /\ Len(backfill.newSnapshots) = Len(Succeeded)
           /\ storage # <<>>
           /\ IsMergeOf(storage[1], backfill.newSnapshots,
                        ParseItem(backfill.storageBefore))

\* a run of several intervals ended and its summaries are in the store
SavedAfterTheLastIntervalReached ==
    /\ backfill.pc = "done"
    /\ Len(backfill.intervals) >= 3
    /\ Len(backfill.newSnapshots) >= 2
    /\ backfill.failures >= 1
    /\ \A i \in DOMAIN backfill.newSnapshots :
           \E j \in DOMAIN storage[1] : storage[1][j] = backfill.newSnapshots[i]

\* the minute of the day a Date shows
ClockMinute(date) == 60 * GetHours(date) + GetMinutes(date)

\* 09:15, 09:30, ..., 15:30
FullSession == [k \in 1..26 |-> LabelOfMinute(SetHours(9, 15) + 15 * (k - 1))]

\* every label of the sequence is 09:15 + 15 k, not later than 15:30 and not
\* later than the clock read when the sequence was generated
LabelsInWindow ==
    \A i \in DOMAIN backfill.intervals :
        LET m == MinuteOfDay(backfill.intervals[i])
        IN  /\ m >= SetHours(9, 15)
            /\ (m - SetHours(9, 15)) % 15 = 0
            /\ m <= SetHours(15, 30)
            /\ m <= ClockMinute(backfill.generatedAt[1])

\* C20 (as stated): the labels are in the window, and the sequence is the
\* full session when the run starts at or after 15:30 and empty when it
\* starts before 09:15.
WindowByStartOfRun ==
    PassedResolution =>
        /\ LabelsInWindow
        /\ ClockMinute(backfill.startedAt) >= SetHours(15, 30) =>
               backfill.intervals = FullSession
        /\ ClockMinute(backfill.startedAt) < SetHours(9, 15) =>
               backfill.intervals = <<>>

\* C20: every interval label requested in a run is 09:15 + 15 k minutes for
\* some k >= 0, not later than 15:30 and not later than the wall clock read
\* when the sequence was generated; the sequence is the full session 09:15
\* ... 15:30 when that reading is at or after 15:30, and empty when it is
\* before 09:15.
WindowByGenerationClock ==
    PassedResolution =>
        /\ LabelsInWindow
        /\ \A i \in DOMAIN backfill.requested :
               IsAnyInterval(backfill.requested[i].time)
        /\ ClockMinute(backfill.generatedAt[1]) >= SetHours(15, 30) =>
               backfill.intervals = FullSession
        /\ ClockMinute(backfill.generatedAt[1]) < SetHours(9, 15) =>
               backfill.intervals = <<>>

\* a run that began before 15:30 and generated its sequence at 15:30 has
\* requested the full session
FullSessionRequestedReached ==
    /\ backfill.pc = "done"
    /\ ClockMinute(backfill.startedAt) < SetHours(15, 30)
    /\ ClockMinute(backfill.generatedAt[1]) = SetHours(15, 30)
    /\ RequestedTimes = FullSession

\* n hundredths is the signed ratio p / c to the nearest hundredth; 0 for c = 0
IsRoundedSignedRatio(n, p, c) ==
    IF c = 0 THEN n = 0 ELSE 2 * Abs(100 * p - n * c) <= Abs(c)

\* the total Call and Put change in open interest of a parsed snapshot
TotalCallChange(response) == SumBothLegs(response.records.data, CallChangeOfRecord)
TotalPutChange(response) == SumBothLegs(response.records.data, PutChangeOfRecord)

\* C21: every summary a backfill run collects carries pcrChangeOI = 0 when
\* the total Call change in OI of its snapshot is 0, and otherwise the
\* signed ratio total Put change / total Call change to two decimals.
PcrChangeOIIsRoundedRatio ==
    PassedResolution =>
        /\ Len(backfill.newSnapshots) = Len(Succeeded)
        /\ \A i \in DOMAIN Succeeded :
               IsRoundedSignedRatio(backfill.newSnapshots[i].pcrChangeOI,
                                    TotalPutChange(Succeeded[i].response),
                                    TotalCallChange(Succeeded[i].response))

\* a run collected a summary whose Call change is 0 while its Put change is
\* not, one with a negative ratio, and one whose ratio -2/3 was rounded
PcrChangeOICasesReached ==
    /\ backfill.pc = "done"
    /\ \E i \in DOMAIN Succeeded :
           /\ TotalCallChange(Succeeded[i].response) = 0
           /\ TotalPutChange(Succeeded[i].response) # 0
           /\ backfill.newSnapshots[i].pcrChangeOI = 0
    /\ \E i \in DOMAIN Succeeded :
           /\ TotalPutChange(Succeeded[i].response) = -2
           /\ TotalCallChange(Succeeded[i].response) = 3
           /\ backfill.newSnapshots[i].pcrChangeOI = -67

-----------------------------------------------------------------------------
(* The live fetch: fetchOptionChainData (dataService.ts) and the demo data  *)
(* of generateMockData (analysis.ts).  Prices are whole numbers.            *)

\* Math.floor(Math.random() * range) for the i-th draw of a run of draws
RandomBelow(seed, i, range) == (seed * (7 * i + 3)) % range

\* the i-th StrikeRecord of generateMockData (i = 0 .. 39)
MockStrike(startStrike, i, seed) ==
    LET strike == startStrike + i * 50
    IN  StrikeRec(strike,
                  [strikePrice |-> strike,
                   openInterest |-> RandomBelow(seed, 6 * i, 100000),
                   changeinOpenInterest |-> RandomBelow(seed, 6 * i + 1, 20000) - 5000,
                   totalTradedVolume |-> RandomBelow(seed, 6 * i + 2, 500000)],
                  [strikePrice |-> strike,
                   openInterest |-> RandomBelow(seed, 6 * i + 3, 100000),
                   changeinOpenInterest |-> RandomBelow(seed, 6 * i + 4, 20000) - 5000,
                   totalTradedVolume |-> RandomBelow(seed, 6 * i + 5, 500000)])

\* the number of strikes generateMockData makes
MockStrikes == 40

\* generateMockData(basePrice)
generateMockData(basePrice, seed) ==
    LET startStrike == (basePrice \div 50) * 50 - 1000
    IN  [k \in 1..MockStrikes |-> MockStrike(startStrike, k - 1, seed)]

\* symbol === 'NIFTY' ? 22000 : symbol === 'BANKNIFTY' ? 47000 : 20500
BasePrice(symbol) ==
    IF symbol = "NIFTY" THEN 22000
    ELSE IF symbol = "BANKNIFTY" THEN 47000
    ELSE 20500

\* the response the catch block resolves with at clock reading n;
\* offset is (Math.random() - 0.5) * 100
MockResponse(symbol, offset, seed, n) ==
    LET currentPrice == BasePrice(symbol) + offset
    IN  [records |-> [expiryDates |-> <<"MOCK-DATA">>,
                      data |-> generateMockData(currentPrice, seed),
                      timestamp |-> ToISOString(n),
                      underlyingValue |-> currentPrice]]

\* the label asked for: 15:30 after the close and before the open, else the
\* hour and minute of the clock
SnapshotTime(date) ==
    LET hours == GetHours(date)
        minutes == GetMinutes(date)
    IN  IF hours > 15 \/ (hours = 15 /\ minutes >= 30) THEN Label(15, 30)
        ELSE IF hours < 9 \/ (hours = 9 /\ minutes < 15) THEN Label(15, 30)
        ELSE Label(hours, minutes)

\* a snapshot is returned whatever the parser gave
ReturnsAnything(snapshot) == TRUE

\* if (data) return data
ReturnsSnapshot(snapshot) == snapshot # Null

\* fetchOptionChainData(symbol), given what the three requests are answered,
\* the clock `date` when the label is chosen, and the draws and the clock n
\* of the catch block
fetchOptionChainData(symbol, lookup, expiryReply, snapshotReply, date, offset, seed, n) ==
    LET stockId == getStockId(symbol, lookup)
        expiries == getExpiryDates(stockId[1], expiryReply)
        snapshot == fetchTrendlyneSnapshot(snapshotReply, SnapshotTime(date), 0)
    IN  IF stockId = <<>> THEN MockResponse(symbol, offset, seed, n)
        ELSE IF Len(expiries) = 0 THEN MockResponse(symbol, offset, seed, n)
        ELSE IF ReturnsSnapshot(snapshot) THEN snapshot
        ELSE MockResponse(symbol, offset, seed, n)

\* replies of the snapshot endpoint: rejected; not ok; not JSON; an error
\* status; no body; price 0 and no strikes; a price and no strikes; a chain
LiveReplyInputs ==
    {[net |-> "rejects"],
     [net |-> "answers", ok |-> FALSE],
     [net |-> "answers", ok |-> TRUE, json |-> <<>>],
     [net |-> "answers", ok |-> TRUE,
      json |-> <<[status |-> <<Scalar("number", 1)>>, body |-> <<>>]>>],
     [net |-> "answers", ok |-> TRUE, json |-> <<[status |-> <<>>, body |-> <<>>]>>],
     [net |-> "answers", ok |-> TRUE,
      json |-> <<[status |-> <<>>,
                  body |-> <<[oiData |-> <<>>, inputLp |-> <<Scalar("number", 0)>>,
                              stockLp |-> <<>>, tradingDate |-> <<>>]>>]>>],
     [net |-> "answers", ok |-> TRUE,
      json |-> <<[status |-> <<>>,
                  body |-> <<[oiData |-> <<>>, inputLp |-> <<Scalar("string", 21950)>>,
                              stockLp |-> <<>>, tradingDate |-> <<>>]>>]>>],
     ChainReply(Label(15, 30))}

\* (Math.random() - 0.5) * 100 lies in -50 .. 50, 50 excluded
OffsetInputs == {-50, 0, 49}

\* 0 makes every draw 0
SeedInputs == {0, 99991}

\* the clock when fetchOptionChainData chooses the label
LiveClockInputs ==
    {SetHours(0, 5), SetHours(9, 14), SetHours(9, 15), SetHours(12, 7),
     SetHours(15, 29), SetHours(15, 30), SetHours(23, 59)}

InitLive ==
    /\ data = <<>>
    /\ underlyingValue = 0
    /\ call = NoCall
    /\ storage = <<>>
    /\ now \in LiveClockInputs
    /\ last = NoStoreCall
    /\ backfill = NoRun
    /\ live = NoLoad
    /\ view = NoView

CallFetchOptionChainData(symbol, expiryReply, snapshotReply, offset, seed) ==
    /\ call = NoCall
    /\ \E lookup \in LookupReplyInputs :
         call' = [fn |-> "fetchOptionChainData",
                  symbol |-> symbol,
                  stockId |-> getStockId(symbol, lookup),
                  expiries |-> getExpiryDates(getStockId(symbol, lookup)[1], expiryReply),
                  snapshotReply |-> snapshotReply,
                  offset |-> offset,
                  result |-> fetchOptionChainData(symbol, lookup, expiryReply,
                                                  snapshotReply, now, offset, seed, now),
                  before |-> <<>>, added |-> <<>>]
    /\ UNCHANGED <<data, underlyingValue, storeVars, backfillVars>>

NextLive ==
    \E symbol \in INDICES, expiryReply \in ExpiryReplyInputs,
       snapshotReply \in LiveReplyInputs, offset \in OffsetInputs, seed \in SeedInputs :
        CallFetchOptionChainData(symbol, expiryReply, snapshotReply, offset, seed)

SpecLive == InitLive /\ [][NextLive]_vars

\* what the snapshot request of the call returned to fetchOptionChainData
LiveSnapshot == fetchTrendlyneSnapshot(call.snapshotReply, SnapshotTime(now), 0)

\* C22: fetchOptionChainData always returns a response; it returns the
\* snapshot of the provider exactly when the identifier lookup, the expiry
\* lookup and the snapshot fetch all succeeded, and otherwise demo data with
\* at least one strike.
LiveFetchFallsBack ==
    call.fn = "fetchOptionChainData" =>
        /\ call.result # Null
        /\ IF call.stockId # <<>> /\ call.expiries # <<>> /\ LiveSnapshot # Null
           THEN call.result = LiveSnapshot
           ELSE /\ call.result.records.expiryDates = <<"MOCK-DATA">>
                /\ Len(call.result.records.data) = MockStrikes
                /\ \A i \in DOMAIN call.result.records.data :
                       /\ call.result.records.data[i].CE # NoLeg
                       /\ call.result.records.data[i].PE # NoLeg
                       /\ call.result.records.data[i].strikePrice =
                              ((BasePrice(call.symbol) + call.offset) \div 50) * 50
                                  - 1000 + 50 * (i - 1)
                /\ IncludesT(call.result.records.timestamp)

\* the lookups succeeded, the snapshot request was answered with a body that
\* has neither price nor strikes, and demo data was returned
MalformedSnapshotFellBackReached ==
    /\ call.fn = "fetchOptionChainData"
    /\ call.expiries # <<>>
    /\ call.snapshotReply.net = "answers"
    /\ call.snapshotReply.ok
    /\ call.snapshotReply.json # <<>>
    /\ call.snapshotReply.json[1].body # <<>>
    /\ LiveSnapshot = Null
    /\ call.result.records.expiryDates = <<"MOCK-DATA">>

-----------------------------------------------------------------------------
(* The store over a localStorage that can fail: getItem, setItem and        *)
(* removeItem may throw, and the stored text may not be JSON.               *)

\* a stored text that JSON.parse rejects
CorruptItem == <<<<>>, <<>>>>

IsCorrupt(item) == Len(item) = 2

\* how a call ends: by a throw or normally, the item it leaves in
\* localStorage, and the value it returns
Outcome(thrown, item, value) == [thrown |-> thrown, item |-> item, value |-> value]

\* a try block without catch: what is thrown leaves the function
NoCatch(outcome, value) == outcome

\* catch (error) { ... }: the function returns `value`
Catch(outcome, value) ==
    IF outcome.thrown THEN Outcome(FALSE, outcome.item, value) ELSE outcome

\* saveSnapshot(data) over a localStorage that throws at `fault`
saveSnapshotCall(response, n, item, fault) ==
    Catch(IF fault = "getItem" THEN Outcome(TRUE, item, <<>>)
          ELSE IF IsCorrupt(item) THEN Outcome(TRUE, item, <<>>)
          ELSE IF fault = "setItem" THEN Outcome(TRUE, item, <<>>)
          ELSE Outcome(FALSE, <<saveSnapshot(response, n, item)>>, <<>>),
          <<>>)

\* saveBackfilledSnapshots(snapshots) over a localStorage that throws at `fault`
saveBackfilledSnapshotsCall(snapshots, item, fault) ==
    Catch(IF fault = "getItem" THEN Outcome(TRUE, item, <<>>)
          ELSE IF IsCorrupt(item) THEN Outcome(TRUE, item, <<>>)
          ELSE IF fault = "setItem" THEN Outcome(TRUE, item, <<>>)
          ELSE Outcome(FALSE, <<saveBackfilledSnapshots(snapshots, item)>>, <<>>),
          <<>>)

\* getSnapshots() over a localStorage that throws at `fault`: [] in the catch
getSnapshotsCall(item, fault) ==
    Catch(IF fault = "getItem" THEN Outcome(TRUE, item, <<>>)
          ELSE IF IsCorrupt(item) THEN Outcome(TRUE, item, <<>>)
          ELSE Outcome(FALSE, item, ParseItem(item)),
          <<>>)

\* clearSnapshots() over a localStorage that throws at `fault`: no try block
clearSnapshotsCall(item, fault) ==
    IF fault = "removeItem" THEN Outcome(TRUE, item, <<>>)
    ELSE Outcome(FALSE, <<>>, <<>>)

\* how many store calls a behaviour of the failing store makes
MaxFaultyCalls == 2

\* where saveSnapshot and saveBackfilledSnapshots can meet a throw
SaveFaultInputs == {"none", "getItem", "setItem"}

\* where getSnapshots can meet a throw
ListFaultInputs == {"none", "getItem"}

\* where clearSnapshots can meet a throw
ClearFaultInputs == {"none", "removeItem"}

\* the batches saved over the failing store: none, and two intervals
FaultyBatchInputs == {b \in BatchInputs : Len(b) <= 2}

\* the call a handler made on the store, the item before it and how it ended
FaultyCall(op, fault, listFault, thrown, value) ==
    [op |-> op, item |-> storage, fault |-> fault, listFault |-> listFault,
     thrown |-> thrown, value |-> value, viewBefore |-> view,
     calls |-> last.calls + 1]

InitFaulty ==
    /\ data = <<>>
    /\ underlyingValue = 0
    /\ call = NoCall
    /\ storage \in {<<>>, CorruptItem}
    /\ now = ClockStart
    /\ last = NoStoreCall
    /\ backfill = NoRun
    /\ live = NoLoad
    /\ view = NoView

\* loadData after the fetch: setData, setLastUpdated, setAnalysis,
\* saveSnapshot(response), setHistory(getSnapshots())
LoadDataSaves(response, n, fault, listFault) ==
    LET saved == saveSnapshotCall(response, n, storage, fault)
        listed == getSnapshotsCall(saved.item, listFault)
        shown == [view EXCEPT
                     !.data = <<response>>,
                     !.lastUpdated = <<"time", n>>,
                     !.analysis = <<analyzeOptionChain(response.records.data,
                                                       response.records.underlyingValue)>>]
    IN  /\ last.calls < MaxFaultyCalls
        /\ storage' = saved.item
        /\ now' = n
        /\ view' = IF saved.thrown \/ listed.thrown THEN shown
                   ELSE [shown EXCEPT !.history = listed.value]
        /\ last' = FaultyCall("saveSnapshot", fault, listFault,
                              saved.thrown \/ listed.thrown, listed.value)
        /\ UNCHANGED <<analysisVars, backfill, live>>

\* the end of handleBackfill: saveBackfilledSnapshots(newSnapshots),
\* setHistory(getSnapshots())
BackfillSaves(snapshots, fault, listFault) ==
    LET saved == saveBackfilledSnapshotsCall(snapshots, storage, fault)
        listed == getSnapshotsCall(saved.item, listFault)
    IN  /\ last.calls < MaxFaultyCalls
        /\ storage' = saved.item
        /\ view' = IF saved.thrown \/ listed.thrown THEN view
                   ELSE [view EXCEPT !.history = listed.value]
        /\ last' = FaultyCall("saveBackfilledSnapshots", fault, listFault,
                              saved.thrown \/ listed.thrown, listed.value)
        /\ UNCHANGED <<analysisVars, now, backfill, live>>

\* the effect on mount: setHistory(getSnapshots())
HistoryLoads(listFault) ==
    LET listed == getSnapshotsCall(storage, listFault)
    IN  /\ last.calls < MaxFaultyCalls
        /\ storage' = listed.item
        /\ view' = IF listed.thrown THEN view ELSE [view EXCEPT !.history = listed.value]
        /\ last' = FaultyCall("getSnapshots", "none", listFault, listed.thrown,
                              listed.value)
        /\ UNCHANGED <<analysisVars, now, backfill, live>>

\* the Clear History button: clearSnapshots(); setHistory([])
ClearHistoryClicked(fault) ==
    LET cleared == clearSnapshotsCall(storage, fault)
    IN  /\ last.calls < MaxFaultyCalls
        /\ storage' = cleared.item
        /\ view' = IF cleared.thrown THEN view ELSE [view EXCEPT !.history = <<>>]
        /\ last' = FaultyCall("clearSnapshots", fault, "none", cleared.thrown, <<>>)
        /\ UNCHANGED <<analysisVars, now, backfill, live>>

NextFaulty ==
    \/ \E response \in ResponseInputs, fault \in SaveFaultInputs,
          listFault \in ListFaultInputs :
           \E n \in {now, now + 1} : LoadDataSaves(response, n, fault, listFault)
    \/ \E snapshots \in FaultyBatchInputs, fault \in SaveFaultInputs,
          listFault \in ListFaultInputs : BackfillSaves(snapshots, fault, listFault)
    \/ \E listFault \in ListFaultInputs : HistoryLoads(listFault)
    \/ \E fault \in ClearFaultInputs : ClearHistoryClicked(fault)

SpecFaulty == InitFaulty /\ [][NextFaulty]_vars

\* the last call was a save during which localStorage failed on read, on
\* parse or on write
SaveFailed ==
    /\ last.op \in {"saveSnapshot", "saveBackfilledSnapshots"}
    /\ last.fault # "none" \/ IsCorrupt(last.item)

\* C23: when localStorage fails on read, on parse or on write during
\* saveSnapshot or saveBackfilledSnapshots, the call returns normally, the
\* stored item is as it was before the call, and the analysis the caller
\* holds is the one it computed.
FailedSaveIsSwallowed ==
    SaveFailed =>
        /\ ~last.thrown
        /\ storage = last.item
        /\ last.op = "saveSnapshot" =>
               /\ view.data # <<>>
               /\ view.analysis = <<analyzeOptionChain(view.data[1].records.data,
                                                       view.data[1].records.underlyingValue)>>
        /\ last.op = "saveBackfilledSnapshots" =>
               view.analysis = last.viewBefore.analysis

\* a write failed on a store that held summaries: they are still there and
\* loadData shows its analysis
WriteFailedOnFilledStoreReached ==
    /\ last.op = "saveSnapshot"
    /\ last.fault = "setItem"
    /\ ~IsCorrupt(last.item)
    /\ ParseItem(last.item) # <<>>
    /\ storage = last.item
    /\ view.analysis # <<>>

\* C24 (as stated; the code violates it): when localStorage fails,
\* getSnapshots returns the empty list and clearSnapshots returns normally;
\* when it works, clearSnapshots leaves no stored collection, so that
\* getSnapshots then returns the empty list.
NoStoreOperationRaises ==
    /\ (last.op = "getSnapshots" /\ (last.listFault # "none" \/ IsCorrupt(last.item))) =>
           ~last.thrown /\ last.value = <<>>
    /\ (last.op = "clearSnapshots" /\ last.fault # "none") => ~last.thrown
    /\ (last.op = "clearSnapshots" /\ last.fault = "none") =>
           /\ ~last.thrown
           /\ getSnapshotsCall(storage, "none").value = <<>>

-----------------------------------------------------------------------------
(* Removal of stored summaries, checked under Spec *)

\* the summaries that were stored before the last call and are not stored now
Removed == {i \in DOMAIN last.before :
               \A j \in DOMAIN getSnapshots : getSnapshots[j] # last.before[i]}

\* the last call cut the collection to its cap
CutToCap ==
    \/ last.op = "saveSnapshot" /\ Len(getSnapshots) = RecordLimit
    \/ last.op = "saveBackfilledSnapshots" /\ Len(getSnapshots) = BatchLimit

\* summary e is older than every summary that is stored now
OlderThanAllKept(e) ==
    \A j \in DOMAIN getSnapshots :
        GetTime(e.timestamp) < GetTime(getSnapshots[j].timestamp)

\* summary e is not newer than any summary that is stored now
NotNewerThanKept(e) ==
    \A j \in DOMAIN getSnapshots :
        GetTime(e.timestamp) <= GetTime(getSnapshots[j].timestamp)

\* another summary with the timestamp of e is stored now
ReplacedBySameTimestamp(e) ==
    \E j \in DOMAIN getSnapshots : getSnapshots[j].timestamp = e.timestamp

\* C25 (as stated): a summary stored before a call and absent after it was
\* removed by clearSnapshots or by the cut to the cap, and then it was older
\* than every summary the call kept.
RemovedOnlyByClearOrCut ==
    \A i \in Removed :
        \/ last.op = "clearSnapshots"
        \/ CutToCap /\ OlderThanAllKept(last.before[i])

\* C25: a summary stored before a call and absent after it was removed by
\* clearSnapshots, or by saveBackfilledSnapshots in favour of a summary with
\* the same timestamp, or by the cut to the cap, and then it was not newer
\* than any summary the call kept.
RemovedByClearDuplicateOrCut ==
    \A i \in Removed :
        \/ last.op = "clearSnapshots"
        \/ last.op = "saveBackfilledSnapshots" /\ ReplacedBySameTimestamp(last.before[i])
        \/ CutToCap /\ NotNewerThanKept(last.before[i])

\* saveSnapshot cut a collection of more than RecordLimit summaries, and the
\* summaries it removed are the oldest
StoredSummariesCutReached ==
    /\ last.op = "saveSnapshot"
    /\ Len(last.before) > RecordLimit
    /\ Cardinality(Removed) > RecordLimit
    /\ \A i \in Removed : NotNewerThanKept(last.before[i])

\* C29: the stored collection never holds more than BatchLimit summaries,
\* and right after saveSnapshot not more than RecordLimit; a saveSnapshot
\* that finds more than RecordLimit summaries leaves the RecordLimit most
\* recent of them and its own.
StoreSizeBound ==
    /\ Len(getSnapshots) <= BatchLimit
    /\ last.op = "saveSnapshot" => Len(getSnapshots) <= RecordLimit
    /\ (last.op = "saveSnapshot" /\ Len(last.before) > RecordLimit) =>
           /\ Len(getSnapshots) = RecordLimit
           /\ \A j \in DOMAIN getSnapshots :
                  \/ getSnapshots[j] = last.snapshot
                  \/ \E i \in DOMAIN last.before : last.before[i] = getSnapshots[j]
           /\ \A i \in Removed : NotNewerThanKept(last.before[i])
           /\ \/ \E j \in DOMAIN getSnapshots : getSnapshots[j] = last.snapshot
              \/ NotNewerThanKept(last.snapshot)

\* saveSnapshot found BatchLimit summaries left by a backfill and left
\* RecordLimit
BatchCutBackByRecordReached ==
    /\ last.op = "saveSnapshot"
    /\ Len(last.before) = BatchLimit
    /\ Len(getSnapshots) = RecordLimit

-----------------------------------------------------------------------------
(* The order of the interval requests, checked under SpecBackfill *)

\* how many interval requests of the run have not returned yet
Outstanding == Len(backfill.requested) - Len(backfill.outcomes)

\* C26: within a run the interval requests are issued in ascending time
\* order; a request is issued only when every earlier request has returned
\* (with a snapshot or with a failure) and the delay that follows it has
\* elapsed; the run never has two interval requests outstanding.
RequestsAreSequential ==
    /\ [](PassedResolution =>
            /\ Outstanding \in {0, 1}
            /\ Outstanding = 1 <=> backfill.pc = "fetch"
            /\ \A i, j \in DOMAIN backfill.requested :
                   i < j => MinuteOfDay(backfill.requested[i].time)
                                < MinuteOfDay(backfill.requested[j].time))
    /\ [][(PassedResolution /\ Len(backfill'.requested) # Len(backfill.requested)) =>
              /\ backfill.pc = "delay"
              /\ Outstanding = 0
              /\ Len(backfill'.requested) = Len(backfill.requested) + 1
              /\ backfill'.pc = "fetch"]_vars

\* the third interval is requested after the first returned a snapshot and
\* the second failed
ThirdRequestAfterFailureReached ==
    /\ backfill.pc = "fetch"
    /\ Len(backfill.requested) = 3
    /\ Len(backfill.outcomes) = 2
    /\ backfill.outcomes[1].response # Null
    /\ backfill.outcomes[2].response = Null

-----------------------------------------------------------------------------
(* loadData running while handleBackfill runs.  loadData is started by the *)
(* effect on selectedIndex, by the auto-refresh timer and by the Refresh   *)
(* button; only the button is disabled while a backfill runs, so a refresh *)
(* may start and may return at any await of handleBackfill.  Each handler  *)
(* runs to its next await without interruption.                            *)

\* how many times loadData is started
MaxLoads == 2

\* the clock when the page is opened: after the first and after the second
\* interval of the session
InterleavedClockInputs == {SetHours(9, 20), SetHours(9, 35)}

InitInterleaved ==
    /\ data = <<>>
    /\ underlyingValue = 0
    /\ call = NoCall
    /\ last = NoStoreCall
    /\ backfill = NoRun
    /\ live = NoLoad
    /\ now \in InterleavedClockInputs
    /\ storage = <<LiveView.history>>
    /\ view = LiveView

\* loadData is called: setLoading(true); fetchOptionChainData(selectedIndex)
\* is called
LoadData(selectedIndex) ==
    /\ live.pc = "idle"
    /\ live.started < MaxLoads
    /\ live' = [live EXCEPT !.pc = "fetchOptionChainData",
                            !.started = @ + 1,
                            !.symbol = <<selectedIndex>>,
                            !.itemAtStart = storage,
                            !.startedDuring = <<backfill.pc>>]
    /\ view' = [view EXCEPT !.loading = TRUE]
    /\ UNCHANGED <<analysisVars, storeVars, backfill>>

\* fetchOptionChainData returns at clock reading n with the snapshot or the
\* mock response: setData, setLastUpdated, setAnalysis, saveSnapshot,
\* setHistory(getSnapshots()), and setLoading(false) in the finally block
FetchOptionChainDataReturns(expiryReply, snapshotReply, n) ==
    /\ live.pc = "fetchOptionChainData"
    /\ snapshotReply.net = "answers" => snapshotReply = ChainReply(SnapshotTime(now))
    /\ \E lookup \in LookupReplyInputs :
         LET response == fetchOptionChainData(live.symbol[1], lookup, expiryReply,
                                              snapshotReply, now, 0, 1, now)
             stored == saveSnapshot(response, n, getItem(storage, live.itemAtStart))
         IN  /\ storage' = <<stored>>
             /\ view' = [view EXCEPT
                            !.data = <<response>>,
                            !.lastUpdated = <<"time", n>>,
                            !.analysis = <<analyzeOptionChain(response.records.data,
                                                              response.records.underlyingValue)>>,
                            !.history = stored,
                            !.loading = FALSE]
             /\ live' = [live EXCEPT
                            !.pc = "idle",
                            !.saves = Append(@, [response |-> response,
                                                 n |-> n,
                                                 startedDuring |-> live.startedDuring[1],
                                                 savedDuring |-> backfill.pc])]
    /\ now' = n
    /\ UNCHANGED <<analysisVars, last, backfill>>

\* the upstream answers a refresh gets: a list of expiry dates, then the
\* chain of the label it asked for
LoadExpiryReplyInputs == {reply \in ExpiryReplyInputs : getExpiryDates("1887", reply) # <<>>}
LoadSnapshotReplyInputs == {reply \in SnapshotReplyInputs : reply.net = "answers"}

\* useState(INDICES[0].value): the index selected when the page opens
DefaultIndex == "NIFTY"

\* the index stays the one selected when the page opened, and a refresh
\* takes a minute
NextInterleaved ==
    \/ StartBackfill(DefaultIndex)
    \/ \E reply \in LookupReplyInputs : StockIdReturns(reply)
    \/ \E reply \in ExpiryReplyInputs : \E delay \in 0..MaxDelay : ExpiryDatesReturn(reply, delay)
    \/ DelayElapses
    \/ \E reply \in SnapshotReplyInputs : SnapshotReturns(reply)
    \/ LoadData(DefaultIndex)
    \/ \E expiryReply \in LoadExpiryReplyInputs, snapshotReply \in LoadSnapshotReplyInputs :
           FetchOptionChainDataReturns(expiryReply, snapshotReply, now + 1)

SpecInterleaved == InitInterleaved /\ [][NextInterleaved]_vars

\* the saveSnapshot calls made before handleBackfill saved, and those made
\* after it, each in the order they ran
SavesBeforeBatch == SelectSeq(live.saves, LAMBDA s : s.savedDuring # "done")
SavesAfterBatch == SelectSeq(live.saves, LAMBDA s : s.savedDuring = "done")

\* the item after the saveSnapshot calls of `saves`, one after another
RECURSIVE ApplySaves(_, _)
ApplySaves(item, saves) ==
    IF saves = <<>> THEN item
    ELSE ApplySaves(<<saveSnapshot(Head(saves).response, Head(saves).n, item)>>,
                    Tail(saves))

\* the item after every store call made so far, one after another in the
\* order they ran
AppliedInOrder ==
    LET before == ApplySaves(<<LiveView.history>>, SavesBeforeBatch)
        batch == IF backfill.pc = "done"
                 THEN <<saveBackfilledSnapshots(backfill.saved[1], before)>>
                 ELSE before
    IN  ApplySaves(batch, SavesAfterBatch)

\* some stored summary carries this timestamp
IsStored(timestamp) == \E i \in DOMAIN getSnapshots : getSnapshots[i].timestamp = timestamp

\* C27: when loadData starts and returns at any await of a running backfill,
\* the stored collection is what the store calls give when applied one after
\* another in the order they ran, and the summary of every saveSnapshot call
\* and of every interval the backfill saved is in the collection
StoreWritesAreSerial ==
    /\ storage = AppliedInOrder
    /\ \A i \in DOMAIN live.saves :
           IsStored(NewSnapshot(live.saves[i].response, live.saves[i].n).timestamp)
    /\ backfill.pc = "done" =>
           \A i \in DOMAIN backfill.saved[1] : IsStored(backfill.saved[1][i].timestamp)

\* a refresh started while an interval request was outstanding and saved
\* after the backfill had saved two intervals, and another refresh saved
\* while the backfill was running
RefreshReturnedAfterBatchReached ==
    /\ backfill.pc = "done"
    /\ Len(backfill.saved[1]) = 2
    /\ \E i \in DOMAIN live.saves :
           /\ live.saves[i].startedDuring = "fetch"
           /\ live.saves[i].savedDuring = "done"
    /\ \E i \in DOMAIN live.saves :
           live.saves[i].savedDuring \in {"getExpiryDates", "delay", "fetch"}

-----------------------------------------------------------------------------
(* One call of handleBackfill after another, every upstream call returning *)

\* how many times the Backfill button is clicked
MaxRuns == 2

\* handleBackfill has returned: after the save, after an alert of a failed
\* lookup, or through its catch block
Ended == {"done", "aborted", "failed"}

\* handleBackfill waits for a promise
Awaiting == {"getStockId", "getExpiryDates", "delay", "fetch"}

\* the clock when the page is opened: after the first and after the second
\* interval of the session
RunsClockInputs == {SetHours(9, 20), SetHours(9, 35)}

InitRuns ==
    /\ data = <<>>
    /\ underlyingValue = 0
    /\ call = NoCall
    /\ last = NoStoreCall
    /\ backfill = NoRun
    /\ live = NoLoad
    /\ now \in RunsClockInputs
    /\ storage = <<LiveView.history>>
    /\ view = LiveView

\* the Backfill button, enabled again, is clicked after an earlier run
StartNextRun(selectedIndex) ==
    /\ backfill.pc \in Ended
    /\ Len(backfill.earlier) + 1 < MaxRuns
    /\ ~view.backfilling
    /\ backfill' = NewRun(selectedIndex, Append(backfill.earlier, backfill.pc))
    /\ view' = [view EXCEPT !.backfilling = TRUE,
                            !.backfillProgress = <<"Initializing...">>]
    /\ UNCHANGED <<analysisVars, storeVars, live>>

\* the awaited promise rejects, or the code after it throws: catch (e)
\* { console.error(e); alert('Backfill failed...') }, then the finally block
AwaitRejects ==
    /\ backfill.pc \in Awaiting
    /\ backfill' = [backfill EXCEPT
                       !.pc = "failed",
                       !.alerts = Append(@, "Backfill failed. See console for details.")]
    /\ view' = Finally(view)
    /\ UNCHANGED <<analysisVars, storeVars, live>>

\* the lookup, the expiry call or the timer of the run returns
LookupReturns ==
    \/ \E reply \in LookupReplyInputs : StockIdReturns(reply)
    \/ \E reply \in ExpiryReplyInputs : \E delay \in 0..MaxDelay : ExpiryDatesReturn(reply, delay)
    \/ DelayElapses

\* the interval request of the run returns
IntervalReturns == \E reply \in SnapshotReplyInputs : SnapshotReturns(reply)

NextRuns ==
    \/ \E selectedIndex \in INDICES : StartBackfill(selectedIndex)
    \/ \E selectedIndex \in INDICES : StartNextRun(selectedIndex)
    \/ LookupReturns
    \/ IntervalReturns
    \/ AwaitRejects

\* WF_vars(IntervalReturns) written out: an interval request can return
\* exactly while the run waits for it
IntervalFairness ==
    []<>(backfill.pc # "fetch") \/ []<><<IntervalReturns>>_vars

\* every upstream call eventually returns
SpecRuns == InitRuns /\ [][NextRuns]_vars /\ WF_vars(LookupReturns) /\ IntervalFairness

\* the Backfill button can be clicked
CanStartBackfill == ENABLED (\E selectedIndex \in INDICES : StartNextRun(selectedIndex))

\* C28: provided every upstream call eventually returns, every started run
\* of handleBackfill eventually ends, whether it aborts on a failed lookup,
\* saves after any mix of failed intervals, or lands in its catch block; when
\* it has ended the backfilling flag is false and the progress string is
\* empty, and a new run can be started.
BackfillReturnsToIdle ==
    /\ [](backfill.pc \in Ended =>
             /\ ~view.backfilling
             /\ view.backfillProgress = <<>>
             /\ Len(backfill.earlier) + 1 < MaxRuns => CanStartBackfill)
    /\ [](backfill.pc \in Awaiting => view.backfilling)
    /\ \A k \in 1..MaxRuns :
          (backfill.pc \in Awaiting /\ Len(backfill.earlier) + 1 = k)
              ~> (backfill.pc \in Ended /\ Len(backfill.earlier) + 1 = k)

\* a run started after a run that ended in the catch block has saved, one of
\* its intervals having failed
SecondRunSavedReached ==
    /\ backfill.pc = "done"
    /\ backfill.earlier = <<"failed">>
    /\ backfill.failures = 1
    /\ ~view.backfilling
    /\ view.backfillProgress = <<>>

====
